---- MODULE Spec2Model ----
(***************************************************************************)
(* SmartSwapML: the stand-alone application of src/main.py (JWT login, a   *)
(* read-through Redis cache in front of MongoDB, startup seeding) and the  *)
(* modular backend of src/backend (user store, bearer authentication,      *)
(* role-based access control, battery CRUD, external API clients).         *)
(*                                                                         *)
(* Time is counted in seconds.  A request handler is split at the points   *)
(* where its coroutine awaits the document store, so that other requests, *)
(* store changes and the clock may interleave exactly there.               *)
(***************************************************************************)
EXTENDS Integers, Sequences, FiniteSets, TLC

VARIABLES
    now,            \* wall clock (seconds)
    redis_client,   \* src/main.py global: "None" or "client"
    database,       \* src/main.py global: "None" or "db"
    redis_data,     \* the Redis keyspace: key -> entry
    mongo,          \* the smartswapml database of src/main.py: collection -> documents
    seeded,         \* initialize_sample_data completed and the collections are as it left them
    tasks,          \* suspended handler coroutines of src/main.py
    ext_writes,     \* number of store changes made by other clients of the database
    restarts,       \* number of process starts
    queries,        \* number of queries the handlers sent to the store
    running,        \* the src/main.py server is between lifespan startup and shutdown
    mongodb_database,   \* src/backend/config/database.py mongodb.database: "None" or "db"
    db_users,       \* the users collection of the backend
    db_batteries,   \* the batteries collection of the backend
    settings_ENVIRONMENT,   \* src/backend/config/settings.py settings.ENVIRONMENT
    users_unique,   \* the unique indexes on users.username and users.email exist
    registrations,  \* suspended register_user coroutines of the backend
    api,            \* a call of an external API client: its input and what it returned
    resp            \* the HTTP response sent in the last step, if one was (with what
                    \* the handler did for it)

vars == <<now, redis_client, database, redis_data, mongo,
          seeded, tasks, ext_writes, restarts, queries, running,
          mongodb_database, db_users, db_batteries,
          settings_ENVIRONMENT, users_unique, registrations, api, resp>>

\* the backend of src/backend
backend_cfg == <<settings_ENVIRONMENT, users_unique, registrations>>
backend == <<mongodb_database, db_users, db_batteries, backend_cfg>>

\* the process of src/main.py, and the data in the servers around it
proc == <<redis_client, database, running, restarts>>
stored == <<redis_data, mongo, seeded, ext_writes, queries>>

-----------------------------------------------------------------------------
(* Bounds of the model *)

MaxTime == 60
MaxTasks == 1
MaxExtWrites == 1
MaxRestarts == 2
MaxQueries == 1

\* the clock advances in steps of these many seconds
Delays == {20}

-----------------------------------------------------------------------------
(* Constants of src/main.py *)

ACCESS_TOKEN_EXPIRE_MINUTES == 30
BATTERY_CACHE_SECONDS == 30
STATION_CACHE_SECONDS == 60
SECRET_KEY == "smartswapml-secret-key-change-in-production"

-----------------------------------------------------------------------------
(* Values *)

\* datetime and its str() form, as produced by json.dumps(..., default=str)
DateTime(t) == <<"datetime", t>>
StrOfDateTime(d) == <<"str", d[2]>>

BatteryFields == {"id", "health", "soc", "cycles", "temp", "location", "status", "timestamp"}
BatteryRequired == BatteryFields \ {"timestamp"}
StationFields == {"id", "name", "lat", "lng", "batteries", "utilization", "status"}
StationRequired == StationFields \ {"status"}

\* Battery(**document): extra keys are ignored, a missing required key is a
\* validation error, timestamp is parsed back from its string form
Battery(document) ==
    IF BatteryRequired \subseteq DOMAIN document
    THEN [ok |-> TRUE,
          val |-> [f \in BatteryFields |->
                     IF f = "timestamp"
                     THEN IF f \in DOMAIN document
                          THEN <<"datetime", document[f][2]>>
                          ELSE DateTime(0)  \* the class default, fixed at import
                     ELSE document[f]]]
    ELSE [ok |-> FALSE, val |-> <<>>]

\* Station(**document)
Station(document) ==
    IF StationRequired \subseteq DOMAIN document
    THEN [ok |-> TRUE,
          val |-> [f \in StationFields |->
                     IF f \in DOMAIN document THEN document[f] ELSE "active"]]
    ELSE [ok |-> FALSE, val |-> <<>>]

\* model.dict() followed by json.dumps(default=str): datetimes become strings
battery_json(b) ==
    [f \in BatteryFields |-> IF f = "timestamp" THEN StrOfDateTime(b[f]) ELSE b[f]]

station_json(s) == s

json_dumps_batteries(batteries) ==
    <<"json", [i \in 1..Len(batteries) |-> battery_json(batteries[i])]>>

json_dumps_battery(battery) == <<"json", battery_json(battery)>>

json_dumps_stations(stations) ==
    <<"json", [i \in 1..Len(stations) |-> station_json(stations[i])]>>

json_loads(s) == s[2]

\* [Model(**d) for d in documents]; one validation error fails the whole list
RECURSIVE ModelList(_, _)
ModelList(documents, kind) ==
    IF documents = <<>> THEN [ok |-> TRUE, val |-> <<>>]
    ELSE LET head == IF kind = "battery" THEN Battery(Head(documents))
                     ELSE Station(Head(documents))
             rest == ModelList(Tail(documents), kind)
         IN  IF head.ok /\ rest.ok
             THEN [ok |-> TRUE, val |-> <<head.val>> \o rest.val]
             ELSE [ok |-> FALSE, val |-> <<>>]

-----------------------------------------------------------------------------
(* Bearer credentials.  A JWT is modelled by its payload and the key that   *)
(* signed it; claims a payload does not carry read as "None".               *)

Null == "None"

Jwt(key, sub, user_id, role, exp, type) ==
    [kind |-> "jwt", key |-> key, sub |-> sub, user_id |-> user_id,
     role |-> role, exp |-> exp, type |-> type]

\* no Authorization header, and a bearer string that is no JWT
MissingCredentials == [kind |-> "missing", key |-> Null, sub |-> Null,
                       user_id |-> Null, role |-> Null, exp |-> 0, type |-> Null]
MalformedCredentials == [kind |-> "malformed", key |-> Null, sub |-> Null,
                         user_id |-> Null, role |-> Null, exp |-> 0, type |-> Null]

\* HTTPBearer() answers a request without credentials itself; the status it
\* uses depends on the installed framework version
HTTPBearerStatuses == {401, 403}

-----------------------------------------------------------------------------
(* src/main.py: tokens and login *)

main_create_access_token(data, expires_delta, t) ==
    LET expire == IF expires_delta # 0 THEN t + expires_delta ELSE t + 15 * 60
    IN  Jwt(SECRET_KEY, data.sub, Null, data.role, expire, Null)

\* jwt.decode (PyJWT): the signature must verify and exp must lie in the future
main_jwt_decode(token, t) ==
    token.kind = "jwt" /\ token.key = SECRET_KEY /\ t < token.exp

main_verify_token(credentials, t) ==
    IF main_jwt_decode(credentials, t) /\ credentials.sub # Null
    THEN [ok |-> TRUE, status |-> 200, payload |-> credentials]
    ELSE [ok |-> FALSE, status |-> 401, payload |-> MissingCredentials]

-----------------------------------------------------------------------------
(* HTTP responses.  Next to status and body a response records what the     *)
(* handler did for it: which of the cache, the store and the external APIs  *)
(* it touched, whether the handler body ran, whether the value came from    *)
(* the cache, and how long ago the returned value was last the store's.     *)

Response(app, ep, arg, cred, status, body, body_ran, effects, hit, age) ==
    [app |-> app, ep |-> ep, arg |-> arg, cred |-> cred, status |-> status,
     body |-> body, body_ran |-> body_ran, effects |-> effects, hit |-> hit,
     age |-> age, raised |-> FALSE]

NoResponse ==
    Response("none", "none", Null, MissingCredentials, 0, <<>>, FALSE, {}, FALSE, 0)

\* the answer of a dependency that refused the request: the body never ran
Refused(app, ep, arg, cred, status) ==
    Response(app, ep, arg, cred, status, <<>>, FALSE, {}, FALSE, 0)

-----------------------------------------------------------------------------
(* src/main.py: the document store and its seeding *)

sample_batteries(t) == <<
    [id |-> "BAT001", health |-> 95, soc |-> 87, cycles |-> 245, temp |-> 32,
     location |-> "Mumbai", status |-> "active", timestamp |-> DateTime(t)],
    [id |-> "BAT002", health |-> 87, soc |-> 72, cycles |-> 567, temp |-> 28,
     location |-> "Pune", status |-> "active", timestamp |-> DateTime(t)],
    [id |-> "BAT003", health |-> 92, soc |-> 91, cycles |-> 123, temp |-> 30,
     location |-> "Bangalore", status |-> "charging", timestamp |-> DateTime(t)],
    [id |-> "BAT004", health |-> 78, soc |-> 45, cycles |-> 892, temp |-> 35,
     location |-> "Chennai", status |-> "maintenance", timestamp |-> DateTime(t)] >>

\* coordinates in 1/10000 degree
sample_stations == <<
    [id |-> "ST001", name |-> "Mumbai Central", lat |-> 190760, lng |-> 728777,
     batteries |-> 24, utilization |-> 85, status |-> "active"],
    [id |-> "ST002", name |-> "Pune Highway", lat |-> 185204, lng |-> 738567,
     batteries |-> 18, utilization |-> 72, status |-> "active"],
    [id |-> "ST003", name |-> "Bangalore Tech Park", lat |-> 129716, lng |-> 775946,
     batteries |-> 32, utilization |-> 91, status |-> "active"] >>

\* insert_many without the delete_many before it
SeedResultKeeps(store, done, t) ==
    [batteries |-> IF done >= 3 THEN store.batteries \o sample_batteries(t)
                   ELSE store.batteries,
     stations  |-> IF done >= 4 THEN store.stations \o sample_stations
                   ELSE store.stations]

\* the steps of initialize_sample_data, each of which may raise
SeedSteps == <<"delete_batteries", "delete_stations", "insert_batteries", "insert_stations">>

\* the collections after initialize_sample_data ran its first `done` steps
SeedResult(store, done, t) ==
    [batteries |-> IF done >= 3 THEN sample_batteries(t)
                   ELSE IF done >= 1 THEN <<>> ELSE store.batteries,
     stations  |-> IF done >= 4 THEN sample_stations
                   ELSE IF done >= 2 THEN <<>> ELSE store.stations]

\* database.batteries.find({}), database.stations.find({}) and
\* database.batteries.find_one({"id": battery_id}) as the server answers them
Find(store, ep, arg) ==
    IF ep = "get_batteries" THEN store.batteries
    ELSE IF ep = "get_stations" THEN store.stations
    ELSE LET hits == SelectSeq(store.batteries,
                               LAMBDA d : "id" \in DOMAIN d /\ d["id"] = arg)
         IN  IF hits = <<>> THEN <<>> ELSE <<Head(hits)>>

-----------------------------------------------------------------------------
(* src/main.py: the cache *)

battery_key(battery_id) == "battery_" \o battery_id

\* the battery ids clients ask for
RequestedIds == {"BAT001"}

CacheKeys == {"batteries_cache", "stations_cache"} \cup {battery_key(b) : b \in RequestedIds}

\* both list handlers under one key
CacheKeyShared(ep, arg) ==
    IF ep = "get_battery" THEN battery_key(arg) ELSE "batteries_cache"

CacheKey(ep, arg) ==
    IF ep = "get_batteries" THEN "batteries_cache"
    ELSE IF ep = "get_stations" THEN "stations_cache"
    ELSE battery_key(arg)

\* one expiry for every key
CacheSecondsLong(ep) == STATION_CACHE_SECONDS

\* the expiry given to setex
CacheSeconds(ep) ==
    IF ep = "get_stations" THEN STATION_CACHE_SECONDS ELSE BATTERY_CACHE_SECONDS

NoEntry == [present |-> FALSE, value |-> <<>>, expire_at |-> 0, as_of |-> 0, run |-> 0]

\* redis GET: a key is gone once its expiry time is reached
redis_get(data, key, t) ==
    IF data[key].present /\ t < data[key].expire_at THEN data[key] ELSE NoEntry

\* redis SETEX
redis_setex(data, key, seconds, value, t, as_of) ==
    [data EXCEPT ![key] = [present |-> TRUE, value |-> value,
                           expire_at |-> t + seconds, as_of |-> as_of, run |-> 0]]

\* the server drops the keys whose time has come
redis_expire(data, t) ==
    [k \in DOMAIN data |-> IF data[k].present /\ t < data[k].expire_at
                           THEN data[k] ELSE NoEntry]

\* a call on the cache client raises: the global is still None (AttributeError),
\* or the server does not answer this call
RedisRaises(no_answer) == redis_client = Null \/ no_answer

ModelKind(ep) == IF ep = "get_stations" THEN "station" ELSE "battery"

\* what the handler builds from the documents it found, and what it caches
Models(ep, documents) == ModelList(documents, ModelKind(ep))

Dumps(ep, models) ==
    IF ep = "get_batteries" THEN json_dumps_batteries(models)
    ELSE IF ep = "get_stations" THEN json_dumps_stations(models)
    ELSE json_dumps_battery(models[1])

\* what the handler builds from a cached string
Loads(ep, cached) ==
    IF ep = "get_battery" THEN Models(ep, <<json_loads(cached)>>).val
    ELSE Models(ep, json_loads(cached)).val

\* the body sent for the models
Body(ep, models) == IF ep = "get_battery" THEN models[1] ELSE models

-----------------------------------------------------------------------------
(* How old a value is.  The value a handler holds or the cache keeps was    *)
(* the store's answer when it was read; as_of is the latest moment at which *)
(* it still was.                                                            *)

Queries == {<<"get_batteries", Null>>, <<"get_stations", Null>>}
               \cup {<<"get_battery", b>> : b \in RequestedIds}

QueryOf(key) == CHOOSE q \in Queries : CacheKey(q[1], q[2]) = key

\* the string a handler would cache for the store's present content
\* (<<>> when it would cache nothing)
Answer(store, ep, arg) ==
    LET documents == Find(store, ep, arg)
        models == Models(ep, documents)
    IN  IF models.ok /\ ~(ep = "get_battery" /\ documents = <<>>)
        THEN Dumps(ep, models.val) ELSE <<>>

AgeCache(data, store, t) ==
    [k \in DOMAIN data |->
        IF data[k].present /\ data[k].value = Answer(store, QueryOf(k)[1], QueryOf(k)[2])
        THEN [data[k] EXCEPT !.as_of = t] ELSE data[k]]

AgeTasks(ts, store, t) ==
    [i \in DOMAIN ts |->
        IF ts[i].pc = "resume" /\ ts[i].found.ok
           /\ Models(ts[i].ep, ts[i].found.docs) = Models(ts[i].ep, Find(store, ts[i].ep, ts[i].arg))
        THEN [ts[i] EXCEPT !.as_of = t] ELSE ts[i]]

-----------------------------------------------------------------------------
(* src/main.py: the handlers behind the cache *)

FreeTask == [pc |-> "free", ep |-> Null, arg |-> Null, cred |-> MissingCredentials,
             found |-> [ok |-> FALSE, docs |-> <<>>], as_of |-> 0]

Slots == 1..MaxTasks

FreeSlot(slot) == tasks[slot].pc = "free" /\ \A j \in 1..(slot - 1) : tasks[j].pc # "free"

\* the exception leaves the handler: 500 whatever the endpoint
FailedPropagates(ep, arg, cred, effects) ==
    [Response("main", ep, arg, cred, 500, <<>>, TRUE, effects, FALSE, 0)
        EXCEPT !.raised = TRUE]

\* the except branch: get_batteries and get_stations answer an empty list,
\* get_battery answers 500
Failed(ep, arg, cred, effects) ==
    [Response("main", ep, arg, cred, IF ep = "get_battery" THEN 500 ELSE 200,
              <<>>, TRUE, effects, FALSE, 0) EXCEPT !.raised = TRUE]

\* the except branch for Exception takes the HTTPException too
NotFoundSwallowed(ep, arg, cred) == Failed(ep, arg, cred, {"cache_read", "store_read"})

\* raise HTTPException(status_code=404), handed on by `except HTTPException:
\* raise`
NotFound(ep, arg, cred) ==
    Response("main", ep, arg, cred, 404, <<>>, TRUE, {"cache_read", "store_read"}, FALSE, 0)

\* from the request up to the first await: verify_token, the cache look-up
\* and, on a miss, the query sent to the store.  get_raises: the cache does
\* not answer the GET.  budget: the number of queries the store is sent in
\* one behaviour.
HandlerStartWithin(ep, arg, cred, slot, get_raises, budget) ==
    LET verified == main_verify_token(cred, now)
        entry == redis_get(redis_data, CacheKey(ep, arg), now)
    IN  /\ running
        /\ IF cred.kind = "missing"
           THEN /\ \E st \in HTTPBearerStatuses : resp' = Refused("main", ep, arg, cred, st)
                /\ UNCHANGED tasks
           ELSE IF ~verified.ok
           THEN /\ resp' = Refused("main", ep, arg, cred, verified.status)
                /\ UNCHANGED tasks
           ELSE IF RedisRaises(get_raises)
           THEN /\ resp' = Failed(ep, arg, cred, {})
                /\ UNCHANGED tasks
           ELSE IF entry.present
           THEN /\ resp' = Response("main", ep, arg, cred, 200,
                                    Body(ep, Loads(ep, entry.value)), TRUE,
                                    {"cache_read"}, TRUE, now - entry.as_of)
                /\ UNCHANGED tasks
           ELSE IF database = Null
           THEN /\ resp' = Failed(ep, arg, cred, {"cache_read"})
                /\ UNCHANGED tasks
           ELSE /\ FreeSlot(slot)
                /\ queries < budget
                /\ tasks' = [tasks EXCEPT ![slot] =
                               [FreeTask EXCEPT !.pc = "await", !.ep = ep,
                                                !.arg = arg, !.cred = cred]]
                /\ resp' = NoResponse
        /\ queries' = queries + (IF tasks' # tasks THEN 1 ELSE 0)
        /\ UNCHANGED <<backend, api, now, proc, redis_data, mongo, seeded, ext_writes>>

HandlerStart(ep, arg, cred, slot, get_raises) ==
    HandlerStartWithin(ep, arg, cred, slot, get_raises, MaxQueries)

\* the store answers the query of a waiting handler (answers), or the driver
\* raises in the handler
MongoAnswers(slot, answers) ==
    /\ tasks[slot].pc = "await"
    /\ tasks' = [tasks EXCEPT ![slot] =
                   [tasks[slot] EXCEPT
                      !.pc = "resume",
                      !.found = IF answers
                                THEN [ok |-> TRUE,
                                      docs |-> Find(mongo, tasks[slot].ep, tasks[slot].arg)]
                                ELSE [ok |-> FALSE, docs |-> <<>>],
                      !.as_of = now]]
    /\ resp' = NoResponse
    /\ UNCHANGED <<backend, api, now, proc, stored>>

\* from the answer of the store to the response: build the models, setex,
\* return.  setex_raises: the cache does not answer the SETEX.
HandlerResume(ep, slot, setex_raises) ==
    LET task == tasks[slot]
        models == Models(ep, task.found.docs)
    IN  /\ task.pc = "resume"
        /\ task.ep = ep
        /\ tasks' = [tasks EXCEPT ![slot] = FreeTask]
        /\ IF ~task.found.ok
           THEN /\ resp' = Failed(ep, task.arg, task.cred, {"cache_read"})
                /\ UNCHANGED redis_data
           ELSE IF ep = "get_battery" /\ task.found.docs = <<>>
           THEN /\ resp' = NotFound(ep, task.arg, task.cred)
                /\ UNCHANGED redis_data
           ELSE IF ~models.ok \/ RedisRaises(setex_raises)
           THEN /\ resp' = Failed(ep, task.arg, task.cred, {"cache_read", "store_read"})
                /\ UNCHANGED redis_data
           ELSE /\ redis_data' = [redis_setex(redis_data, CacheKey(ep, task.arg),
                                              CacheSeconds(ep), Dumps(ep, models.val),
                                              now, task.as_of)
                                     EXCEPT ![CacheKey(ep, task.arg)].run = restarts]
                /\ resp' = Response("main", ep, task.arg, task.cred, 200,
                                    Body(ep, models.val), TRUE,
                                    {"cache_read", "store_read", "cache_write"},
                                    FALSE, now - task.as_of)
        /\ UNCHANGED <<backend, api, now, proc, mongo, seeded, ext_writes, queries>>

\* the token login issues at time t
LoginToken(t) ==
    main_create_access_token([sub |-> "demo", role |-> "admin"],
                             ACCESS_TOKEN_EXPIRE_MINUTES * 60, t)

\* the credentials a client may present at time t: none, a string that is no
\* JWT, a JWT signed with another key, and the tokens login issued just now
\* and ACCESS_TOKEN_EXPIRE_MINUTES ago
MainCredentials(t) ==
    {MissingCredentials, MalformedCredentials,
     Jwt("another-key", "demo", Null, "admin", t + 60, Null),
     LoginToken(t), LoginToken(t - ACCESS_TOKEN_EXPIRE_MINUTES * 60)}

LoginNames == {"demo", "admin"}
LoginPasswords == {"demo123", "admin123", "wrong"}

\* POST /auth/login
main_login(username, password) ==
    /\ running
    /\ resp' = IF username = "demo" /\ password = "demo123"
               THEN Response("main", "login", <<username, password>>, MissingCredentials, 200,
                             [access_token |-> main_create_access_token(
                                                   [sub |-> username, role |-> "admin"],
                                                   ACCESS_TOKEN_EXPIRE_MINUTES * 60, now),
                              token_type |-> "bearer"],
                             TRUE, {}, FALSE, 0)
               ELSE Response("main", "login", <<username, password>>, MissingCredentials, 401, <<>>,
                             TRUE, {}, FALSE, 0)
    /\ UNCHANGED <<backend, api, now, proc, stored, tasks>>

\* GET /api/batteries
main_get_batteries(cred, slot, get_raises) ==
    HandlerStart("get_batteries", Null, cred, slot, get_raises)
main_get_batteries_resume(slot, setex_raises) ==
    HandlerResume("get_batteries", slot, setex_raises)

\* GET /api/batteries/{battery_id}
main_get_battery(battery_id, cred, slot, get_raises) ==
    HandlerStart("get_battery", battery_id, cred, slot, get_raises)
main_get_battery_resume(slot, setex_raises) ==
    HandlerResume("get_battery", slot, setex_raises)

\* GET /api/stations
main_get_stations(cred, slot, get_raises) ==
    HandlerStart("get_stations", Null, cred, slot, get_raises)
main_get_stations_resume(slot, setex_raises) ==
    HandlerResume("get_stations", slot, setex_raises)

\* the /api endpoints of src/main.py that touch neither cache nor store
MainPlainEndpoints == {"get_route_optimization", "get_circular_economy_data",
                       "get_ml_performance", "get_weather"}

main_plain_endpoint(ep, cred) ==
    LET verified == main_verify_token(cred, now)
    IN  /\ running
        /\ IF cred.kind = "missing"
           THEN \E st \in HTTPBearerStatuses : resp' = Refused("main", ep, Null, cred, st)
           ELSE IF ~verified.ok
           THEN resp' = Refused("main", ep, Null, cred, verified.status)
           ELSE resp' = Response("main", ep, Null, cred, 200, <<>>, TRUE, {}, FALSE, 0)
        /\ UNCHANGED <<backend, api, now, proc, stored, tasks>>

-----------------------------------------------------------------------------
(* src/main.py: lifespan *)

AllFree == [i \in Slots |-> FreeTask]

\* startup: the two clients are created, then initialize_sample_data runs.
\* `clients` tells which constructor raised, if one did; `done` is the number
\* of steps of initialize_sample_data that ran before one raised, 4 when none
\* did.  Either exception is printed and the application serves requests all
\* the same.
lifespan_startup(clients, done) ==
    /\ ~running
    /\ restarts < MaxRestarts
    /\ restarts' = restarts + 1
    /\ running' = TRUE
    /\ tasks' = AllFree
    /\ resp' = NoResponse
    /\ UNCHANGED <<backend, api, now, ext_writes, queries>>
    /\ IF clients = "redis_raises"
       THEN /\ redis_client' = Null /\ database' = Null
            /\ seeded' = FALSE
            /\ UNCHANGED <<mongo, redis_data>>
       ELSE IF clients = "mongo_raises"
       THEN /\ redis_client' = "client" /\ database' = Null
            /\ seeded' = FALSE
            /\ UNCHANGED <<mongo, redis_data>>
       ELSE /\ redis_client' = "client" /\ database' = "db"
            /\ mongo' = SeedResult(mongo, done, now)
            /\ seeded' = (done = 4)
            /\ redis_data' = AgeCache(redis_data, mongo', now)

\* shutdown: both clients are closed and the process ends
lifespan_shutdown ==
    /\ running
    /\ running' = FALSE
    /\ redis_client' = Null /\ database' = Null
    /\ tasks' = AllFree
    /\ seeded' = FALSE
    /\ resp' = NoResponse
    /\ UNCHANGED <<backend, api, now, redis_data, mongo, ext_writes, restarts, queries>>

-----------------------------------------------------------------------------
(* The world around src/main.py *)

\* another client of the database changes the batteries or stations collection
ExternalWrites == {"insert_battery", "insert_malformed", "delete_station"}

Written(store, op, t) ==
    IF op = "insert_battery"
    THEN [store EXCEPT !.batteries = Append(@,
            [id |-> "BAT001", health |-> 60, soc |-> 50, cycles |-> 10, temp |-> 25,
             location |-> "Delhi", status |-> "active", timestamp |-> DateTime(0)])]
    ELSE IF op = "insert_malformed"
    THEN [store EXCEPT !.batteries = Append(@, [id |-> "BAT005"])]
    ELSE [store EXCEPT !.stations = IF @ = <<>> THEN @ ELSE Tail(@)]

ExternalWrite(op) ==
    /\ ext_writes < MaxExtWrites
    /\ ext_writes' = ext_writes + 1
    /\ mongo' = Written(mongo, op, now)
    /\ mongo' # mongo
    /\ seeded' = FALSE
    /\ redis_data' = AgeCache(redis_data, mongo', now)
    /\ tasks' = AgeTasks(tasks, mongo', now)
    /\ resp' = NoResponse
    /\ UNCHANGED <<backend, api, now, proc, queries>>

\* Time passes.  The clock of the model starts with the first start of the
\* process and runs while a handler is suspended or the cache holds an entry:
\* nothing in the program depends on how long it was idle before.
Tick(d) ==
    /\ restarts > 0
    /\ \/ \E k \in CacheKeys : redis_data[k].present
       \/ \E i \in Slots : tasks[i].pc # "free"
    /\ now + d <= MaxTime
    /\ now' = now + d
    /\ redis_data' = AgeCache(redis_expire(redis_data, now'), mongo, now')
    /\ tasks' = AgeTasks(tasks, mongo, now')
    /\ resp' = NoResponse
    /\ UNCHANGED <<backend, api, proc, mongo, seeded, ext_writes, queries>>

-----------------------------------------------------------------------------
(* The application of src/main.py with its cache, its store and its clients *)

\* the backend is not part of this specification
BackendIdle ==
    /\ mongodb_database = "None"
    /\ db_users = <<>>
    /\ db_batteries = <<>>
    /\ settings_ENVIRONMENT = "development"
    /\ users_unique = FALSE
    /\ registrations = <<>>

\* no external API call is part of this specification
ApiIdle == api = [call |-> "none"]

InitMain ==
    /\ now = 0
    /\ redis_client = Null /\ database = Null
    /\ running = FALSE /\ restarts = 0
    /\ redis_data = [k \in CacheKeys |-> NoEntry]
    /\ mongo = [batteries |-> <<>>, stations |-> <<>>]
    /\ seeded = FALSE
    /\ ext_writes = 0
    /\ queries = 0
    /\ tasks = AllFree
    /\ BackendIdle /\ ApiIdle
    /\ resp = NoResponse

\* the cache-backed handlers serving clients that hold a valid token, the
\* store answering or failing, the process restarting, other clients of the
\* database writing, and time passing
NextMain ==
    \/ \E c \in {"ok", "redis_raises", "mongo_raises"}, done \in {0, 4} : lifespan_startup(c, done)
    \/ \E i \in Slots, r \in BOOLEAN : main_get_batteries(LoginToken(now), i, r)
    \/ \E i \in Slots, r \in BOOLEAN : main_get_batteries_resume(i, r)
    \/ \E b \in RequestedIds, i \in Slots, r \in BOOLEAN :
          main_get_battery(b, LoginToken(now), i, r)
    \/ \E i \in Slots, r \in BOOLEAN : main_get_battery_resume(i, r)
    \/ \E i \in Slots, r \in BOOLEAN : main_get_stations(LoginToken(now), i, r)
    \/ \E i \in Slots, r \in BOOLEAN : main_get_stations_resume(i, r)
    \/ \E i \in Slots, a \in BOOLEAN : MongoAnswers(i, a)
    \/ \E op \in ExternalWrites : ExternalWrite(op)
    \/ \E d \in Delays : Tick(d)

SpecMain == InitMain /\ [][NextMain]_vars

-----------------------------------------------------------------------------
(* The same application across restarts: what GET /api/batteries answers    *)
(* after startup, whatever the collection held and the cache holds.         *)

\* a document left in the batteries collection by an earlier deployment
OldBattery ==
    [id |-> "BAT009", health |-> 50, soc |-> 10, cycles |-> 999, temp |-> 20,
     location |-> "Delhi", status |-> "retired", timestamp |-> DateTime(0)]

InitSeed ==
    /\ now = 0
    /\ redis_client = Null /\ database = Null
    /\ running = FALSE /\ restarts = 0
    /\ redis_data = [k \in CacheKeys |-> NoEntry]
    /\ mongo \in {[batteries |-> <<>>, stations |-> <<>>],
                  [batteries |-> <<OldBattery>>, stations |-> <<>>]}
    /\ seeded = FALSE
    /\ ext_writes = 0
    /\ queries = 0
    /\ tasks = AllFree
    /\ BackendIdle /\ ApiIdle
    /\ resp = NoResponse

NextSeed ==
    \/ \E c \in {"ok", "redis_raises", "mongo_raises"}, done \in 0..4 : lifespan_startup(c, done)
    \/ lifespan_shutdown
    \/ \E i \in Slots, r \in BOOLEAN : main_get_batteries(LoginToken(now), i, r)
    \/ \E i \in Slots, r \in BOOLEAN : main_get_batteries_resume(i, r)
    \/ \E i \in Slots, a \in BOOLEAN : MongoAnswers(i, a)
    \/ \E op \in ExternalWrites : ExternalWrite(op)
    \/ \E d \in Delays : Tick(d)

SpecSeed == InitSeed /\ [][NextSeed]_vars

-----------------------------------------------------------------------------
(* src/backend: settings, users, tokens *)

\* settings.SECRET_KEY is read from the environment
settings_SECRET_KEY == "settings.SECRET_KEY"
settings_ACCESS_TOKEN_EXPIRE_MINUTES == 30
REFRESH_TOKEN_EXPIRE_DAYS == 7

\* passlib bcrypt: a hash verifies exactly the password it was made from
get_password_hash(password) == <<"bcrypt", password>>
verify_password(plain_password, hashed_password) ==
    hashed_password = get_password_hash(plain_password)

\* last_login of a user who never logged in
Never == <<>>

\* a document of the users collection
UserDoc(id, username, password, role) ==
    [id |-> id, username |-> username, email |-> username \o "@smartswapml.com",
     hashed_password |-> get_password_hash(password),
     role |-> role, is_active |-> TRUE, last_login |-> Never]

NoUser == [id |-> Null, username |-> Null, email |-> Null, hashed_password |-> Null,
           role |-> Null, is_active |-> FALSE, last_login |-> Never]

\* the users create_demo_users inserts
demo_users == <<UserDoc("user_demo", "demo", "demo123", "user"),
                UserDoc("user_admin", "admin", "admin123", "admin"),
                UserDoc("user_operator", "operator", "operator123", "operator")>>

create_refresh_token(data, t) ==
    Jwt(settings_SECRET_KEY, data.sub, data.user_id, data.role,
        t + REFRESH_TOKEN_EXPIRE_DAYS * 24 * 3600, "refresh")

\* login hands out a token of type "refresh" as its access token
backend_create_access_token_refresh(data, expires_delta, t) ==
    create_refresh_token(data, t)

\* create_access_token of auth_service.py: the token carries type "access"
backend_create_access_token(data, expires_delta, t) ==
    LET expire == IF expires_delta # 0 THEN t + expires_delta
                  ELSE t + settings_ACCESS_TOKEN_EXPIRE_MINUTES * 60
    IN  Jwt(settings_SECRET_KEY, data.sub, data.user_id, data.role, expire, "access")

\* jwt.decode (python-jose): the signature must verify and exp must not lie
\* in the past
jose_jwt_decode(token, t) ==
    token.kind = "jwt" /\ token.key = settings_SECRET_KEY /\ t <= token.exp

\* verify_token without the look at the type of the token
backend_verify_token_any_type(token, t) ==
    IF jose_jwt_decode(token, t) /\ token.sub # Null
    THEN [ok |-> TRUE, status |-> 200,
          token_data |-> [username |-> token.sub, user_id |-> token.user_id,
                          role |-> token.role]]
    ELSE [ok |-> FALSE, status |-> 401,
          token_data |-> [username |-> Null, user_id |-> Null, role |-> Null]]

\* verify_token of auth_service.py
backend_verify_token(token, t) ==
    IF jose_jwt_decode(token, t) /\ token.sub # Null /\ token.type = "access"
    THEN [ok |-> TRUE, status |-> 200,
          token_data |-> [username |-> token.sub, user_id |-> token.user_id,
                          role |-> token.role]]
    ELSE [ok |-> FALSE, status |-> 401,
          token_data |-> [username |-> Null, user_id |-> Null, role |-> Null]]

\* db.users.find_one({"username": username})
users_find_one(users, username) ==
    LET hits == SelectSeq(users, LAMBDA u : u.username = username)
    IN  IF hits = <<>> THEN NoUser ELSE Head(hits)

\* get_user_by_username: None when there is no such user, and also when the
\* database is None or the query raises (the exception is logged)
get_user_by_username(username, find_raises) ==
    IF mongodb_database = Null \/ find_raises THEN NoUser
    ELSE users_find_one(db_users, username)

\* any password opens the account
authenticate_user_any_password(username, password, find_raises) ==
    get_user_by_username(username, find_raises)

authenticate_user(username, password, find_raises) ==
    LET user == get_user_by_username(username, find_raises)
    IN  IF user = NoUser THEN NoUser
        ELSE IF ~verify_password(password, user.hashed_password) THEN NoUser
        ELSE user

\* get_current_user: [ok, status, user]
get_current_user(credentials, t, find_raises) ==
    LET verified == backend_verify_token(credentials, t)
        user == get_user_by_username(verified.token_data.username, find_raises)
    IN  IF ~verified.ok THEN [ok |-> FALSE, status |-> 401, user |-> NoUser]
        ELSE IF user = NoUser THEN [ok |-> FALSE, status |-> 401, user |-> NoUser]
        ELSE IF ~user.is_active THEN [ok |-> FALSE, status |-> 401, user |-> NoUser]
        ELSE [ok |-> TRUE, status |-> 200, user |-> user]

\* the role lists of require_admin, require_operator and require_user
require_admin == {"admin"}
require_operator == {"admin", "operator"}
require_user == {"admin", "operator", "user"}

\* every authenticated user passes
require_roles_open(allowed_roles, credentials, t, find_raises) ==
    get_current_user(credentials, t, find_raises)

\* require_roles(allowed_roles): role_checker
require_roles(allowed_roles, credentials, t, find_raises) ==
    LET current == get_current_user(credentials, t, find_raises)
    IN  IF ~current.ok THEN current
        ELSE IF current.user.role \notin allowed_roles
        THEN [ok |-> FALSE, status |-> 403, user |-> NoUser]
        ELSE current

-----------------------------------------------------------------------------
(* src/backend: the routers *)

\* the endpoints of the batteries, stations, routes and analytics routers,
\* by the dependency each declares
RequireAdminEndpoints ==
    {"stations.create_station", "stations.optimize_station_placement"}

RequireOperatorEndpoints ==
    {"batteries.create_battery", "batteries.update_battery",
     "stations.update_station", "analytics.get_system_status"}

NoDependencyEndpoints == {"routes.demo_weather_integration"}

CurrentUserEndpoints ==
    {"batteries.get_batteries", "batteries.get_battery",
     "batteries.predict_battery_health", "batteries.analyze_swap_request",
     "batteries.get_circular_economy_metrics",
     "stations.get_stations", "stations.get_station", "stations.search_nearby_stations",
     "stations.get_station_analytics", "stations.get_grid_integration_status",
     "routes.optimize_route", "routes.analyze_range", "routes.analyze_terrain",
     "routes.get_optimization_metrics",
     "analytics.get_dashboard_analytics", "analytics.get_battery_health_summary",
     "analytics.get_range_prediction_analytics", "analytics.get_circular_economy_metrics",
     "analytics.get_station_performance_analytics", "analytics.generate_custom_report"}

RouterEndpoints ==
    RequireAdminEndpoints \cup RequireOperatorEndpoints
        \cup NoDependencyEndpoints \cup CurrentUserEndpoints

\* the endpoints with a handler of their own below
BatteryStoreEndpoints ==
    {"batteries.get_batteries", "batteries.get_battery",
     "batteries.create_battery", "batteries.update_battery"}

Dependency(ep) ==
    IF ep \in NoDependencyEndpoints THEN "none"
    ELSE IF ep \in RequireAdminEndpoints THEN "require_admin"
    ELSE IF ep \in RequireOperatorEndpoints THEN "require_operator"
    ELSE "get_current_user"

\* what the body of an endpoint reaches for: the external API clients
BodyEffects(ep) ==
    IF ep \in {"routes.optimize_route", "routes.analyze_terrain",
               "routes.demo_weather_integration"}
    THEN {"external_api"} ELSE {}

\* the outcomes of resolving the dependency of an endpoint: [ok, status, user].
\* HTTPBearer answers a request without credentials before any of them runs.
Depends(dependency, credentials, find_raises) ==
    IF dependency = "none"
    THEN {[ok |-> TRUE, status |-> 200, user |-> NoUser]}
    ELSE IF credentials.kind = "missing"
    THEN {[ok |-> FALSE, status |-> st, user |-> NoUser] : st \in HTTPBearerStatuses}
    ELSE IF dependency = "require_admin"
    THEN {require_roles(require_admin, credentials, now, find_raises)}
    ELSE IF dependency = "require_operator"
    THEN {require_roles(require_operator, credentials, now, find_raises)}
    ELSE {get_current_user(credentials, now, find_raises)}

\* the user lookup of get_current_user ended in its except branch
LookupRaised(dependency, credentials, find_raises) ==
    /\ dependency # "none"
    /\ backend_verify_token(credentials, now).ok
    /\ mongodb_database = Null \/ find_raises

\* the answer of a dependency that refused the request
BackendRefused(ep, arg, cred, status, find_raises) ==
    [Refused("backend", ep, arg, cred, status)
        EXCEPT !.raised = LookupRaised(Dependency(ep), cred, find_raises)]

BackendResponse(ep, arg, cred, status, body, effects) ==
    Response("backend", ep, arg, cred, status, body, TRUE, effects, FALSE, 0)

\* an endpoint whose body touches no store: it answers 200
backend_endpoint(ep, cred, find_raises) ==
    /\ ep \in RouterEndpoints \ BatteryStoreEndpoints
    /\ \E d \in Depends(Dependency(ep), cred, find_raises) :
          resp' = IF ~d.ok THEN BackendRefused(ep, Null, cred, d.status, find_raises)
                  ELSE BackendResponse(ep, Null, cred, 200, <<>>, BodyEffects(ep))
    /\ UNCHANGED <<now, proc, stored, tasks, backend, api>>

\* get_mock_batteries: the ids sliced by skip and limit; the attributes of a
\* battery follow from its position in the slice; query_filter is not used
mock_battery_ids == <<"BAT001", "BAT002", "BAT003", "BAT004", "BAT005">>

get_mock_batteries(query_filter, skip, limit) ==
    LET ids == SubSeq(mock_battery_ids, skip + 1,
                      IF skip + limit < Len(mock_battery_ids) THEN skip + limit
                      ELSE Len(mock_battery_ids))
    IN  [n \in 1..Len(ids) |->
           LET i == n - 1
               soh == 90 - i * 3
           IN  [battery_id |-> ids[n],
                station_id |-> (i % 3) + 1,
                soc |-> 85 + i * 2, soh |-> soh, cycle_count |-> 500 + i * 100,
                status |-> IF soh > 80 THEN "healthy" ELSE "degraded"]]

get_mock_battery(battery_id) ==
    SelectSeq(get_mock_batteries(<<>>, 0, 10), LAMBDA b : b.battery_id = battery_id)

\* db.batteries.find_one({"battery_id": battery_id})
batteries_find_one(batteries, battery_id) ==
    SelectSeq(batteries, LAMBDA b : b.battery_id = battery_id)

\* GET /api/batteries/ with the default skip and limit
backend_get_batteries(cred, find_raises) ==
    /\ \E d \in Depends("get_current_user", cred, find_raises) :
          resp' = IF ~d.ok
                  THEN BackendRefused("batteries.get_batteries", Null, cred, d.status, find_raises)
                  ELSE BackendResponse("batteries.get_batteries", Null, cred, 200,
                                       get_mock_batteries(<<>>, 0, 100), {})
    /\ UNCHANGED <<now, proc, stored, tasks, backend, api>>

\* GET /api/batteries/{battery_id}
backend_get_battery(battery_id, cred, find_raises) ==
    /\ \E d \in Depends("get_current_user", cred, find_raises) :
          LET battery == get_mock_battery(battery_id)
          IN  resp' = IF ~d.ok
                      THEN BackendRefused("batteries.get_battery", battery_id, cred, d.status, find_raises)
                      ELSE IF battery = <<>>
                      THEN BackendResponse("batteries.get_battery", battery_id, cred,
                                           404, <<>>, {})
                      ELSE BackendResponse("batteries.get_battery", battery_id, cred,
                                           200, battery[1], {})
    /\ UNCHANGED <<now, proc, stored, tasks, backend, api>>

\* POST /api/batteries/.  insert_raises: the server does not answer the insert.
backend_create_battery(battery_id, cred, find_raises, insert_raises) ==
    /\ \E d \in Depends("require_operator", cred, find_raises) :
          IF ~d.ok
          THEN /\ resp' = BackendRefused("batteries.create_battery", battery_id, cred, d.status, find_raises)
               /\ UNCHANGED db_batteries
          ELSE IF mongodb_database = Null \/ insert_raises
          THEN /\ resp' = [BackendResponse("batteries.create_battery", battery_id, cred,
                                           500, <<>>, {}) EXCEPT !.raised = TRUE]
               /\ UNCHANGED db_batteries
          ELSE IF batteries_find_one(db_batteries, battery_id) # <<>>
          THEN /\ resp' = BackendResponse("batteries.create_battery", battery_id, cred,
                                          400, <<>>, {"store_read"})
               /\ UNCHANGED db_batteries
          ELSE /\ db_batteries' = Append(db_batteries,
                                         [battery_id |-> battery_id, station_id |-> 1,
                                          created_at |-> now, updated_at |-> now])
               /\ resp' = BackendResponse("batteries.create_battery", battery_id, cred,
                                          200, [battery_id |-> battery_id],
                                          {"store_read", "store_write"})
    /\ UNCHANGED <<now, proc, stored, tasks, mongodb_database, db_users, api, backend_cfg>>

\* PUT /api/batteries/{battery_id}
backend_update_battery(battery_id, station_id, cred, find_raises, update_raises) ==
    /\ \E d \in Depends("require_operator", cred, find_raises) :
          IF ~d.ok
          THEN /\ resp' = BackendRefused("batteries.update_battery", battery_id, cred, d.status, find_raises)
               /\ UNCHANGED db_batteries
          ELSE IF mongodb_database = Null \/ update_raises
          THEN /\ resp' = [BackendResponse("batteries.update_battery", battery_id, cred,
                                           500, <<>>, {}) EXCEPT !.raised = TRUE]
               /\ UNCHANGED db_batteries
          ELSE IF batteries_find_one(db_batteries, battery_id) = <<>>
          THEN /\ resp' = BackendResponse("batteries.update_battery", battery_id, cred,
                                          404, <<>>, {"store_read"})
               /\ UNCHANGED db_batteries
          ELSE /\ db_batteries' =
                     [n \in 1..Len(db_batteries) |->
                        IF db_batteries[n].battery_id = battery_id
                           /\ \A k \in 1..(n - 1) : db_batteries[k].battery_id # battery_id
                        THEN [db_batteries[n] EXCEPT !.station_id = station_id,
                                                     !.updated_at = now]
                        ELSE db_batteries[n]]
               /\ resp' = BackendResponse("batteries.update_battery", battery_id, cred,
                                          200, <<>>, {"store_read", "store_write"})
    /\ UNCHANGED <<now, proc, stored, tasks, mongodb_database, db_users, api, backend_cfg>>

-----------------------------------------------------------------------------
(* src/backend: the auth router, the database, and the clients *)

\* the indexes create_indexes may leave behind: it creates the unique index
\* on username, then the one on email, and gives up (with a warning) at the
\* first create_index that raises
IndexOutcomes == {{}, {"username"}, {"username", "email"}}

\* two documents of the collection agree on the field
HasDuplicates(users, field) ==
    \E m \in 1..Len(users), n \in 1..Len(users) : m # n /\ users[m][field] = users[n][field]

\* connect_to_mongo: mongodb.database is set, then create_indexes runs.
\* created: the unique indexes it managed to create.
connect_to_mongo(created) ==
    /\ mongodb_database = Null
    /\ \A field \in created : ~HasDuplicates(db_users, field)
    /\ mongodb_database' = "db"
    /\ users_unique' = created
    /\ resp' = NoResponse
    /\ UNCHANGED <<now, proc, stored, tasks, db_users, db_batteries, api,
                   settings_ENVIRONMENT, registrations>>

\* insert_one raises DuplicateKeyError when a unique index holds the value
DuplicateKey(users, document, unique) ==
    \E field \in unique : \E n \in 1..Len(users) : users[n][field] = document[field]

RECURSIVE InsertMissing(_, _, _)
\* for each document in turn: insert it unless its username is taken; the
\* loop ends at the first insert that raises.  [users, created, raised]
InsertMissing(users, documents, unique) ==
    IF documents = <<>> THEN [users |-> users, created |-> <<>>, raised |-> FALSE]
    ELSE IF users_find_one(users, Head(documents).username) # NoUser
    THEN InsertMissing(users, Tail(documents), unique)
    ELSE IF DuplicateKey(users, Head(documents), unique)
    THEN [users |-> users, created |-> <<>>, raised |-> TRUE]
    ELSE LET rest == InsertMissing(Append(users, Head(documents)), Tail(documents), unique)
         IN  [rest EXCEPT !.created = <<Head(documents).username>> \o @]

\* POST /api/auth/demo/create-demo-users
create_demo_users ==
    /\ IF settings_ENVIRONMENT # "development"
       THEN /\ resp' = BackendResponse("auth.create_demo_users", Null, MissingCredentials,
                                       403, <<>>, {})
            /\ UNCHANGED db_users
       ELSE IF mongodb_database = Null
       THEN /\ resp' = [BackendResponse("auth.create_demo_users", Null, MissingCredentials,
                                        500, <<>>, {}) EXCEPT !.raised = TRUE]
            /\ UNCHANGED db_users
       ELSE LET done == InsertMissing(db_users, demo_users, users_unique) IN
            /\ db_users' = done.users
            /\ resp' = IF done.raised
                       THEN [BackendResponse("auth.create_demo_users", Null,
                                             MissingCredentials, 500, <<>>,
                                             {"store_read", "store_write"})
                               EXCEPT !.raised = TRUE]
                       ELSE BackendResponse("auth.create_demo_users", Null,
                                            MissingCredentials, 200, done.created,
                                            {"store_read", "store_write"})
    /\ UNCHANGED <<now, proc, stored, tasks, mongodb_database, db_batteries, api, backend_cfg>>

\* the most users the collection is let grow to, and the number of
\* register_user requests in flight
MaxUsers == 3
MaxRegistrations == 2

FreeRegistration == [pc |-> "free", username |-> Null, email |-> Null, user_data |-> NoUser]
NoRegistrations == [slot \in 1..MaxRegistrations |-> FreeRegistration]
InFlight == Cardinality({slot \in DOMAIN registrations : registrations[slot].pc # "free"})

\* find_one by username alone
users_find_one_or_username(users, username, email) == users_find_one(users, username)

\* db.users.find_one({"$or": [{"username": username}, {"email": email}]})
users_find_one_or(users, username, email) ==
    LET hits == SelectSeq(users, LAMBDA u : u.username = username \/ u.email = email)
    IN  IF hits = <<>> THEN NoUser ELSE Head(hits)

RegisterResponse(username, email, status, body, effects) ==
    BackendResponse("auth.register_user", <<username, email>>, MissingCredentials,
                    status, body, effects)

\* POST /api/auth/register up to the find_one of create_user
register_user(slot, username, email, password, role) ==
    /\ registrations[slot].pc = "free"
    /\ Len(db_users) + InFlight < MaxUsers
    /\ IF mongodb_database = Null
       THEN /\ resp' = [RegisterResponse(username, email, 500, <<>>, {})
                          EXCEPT !.raised = TRUE]
            /\ UNCHANGED registrations
       ELSE /\ registrations' = [registrations EXCEPT ![slot] =
                 [pc |-> "find", username |-> username, email |-> email,
                  user_data |-> [UserDoc("user_" \o ToString(now), username, password, role)
                                   EXCEPT !.email = email]]]
            /\ resp' = NoResponse
    /\ UNCHANGED <<now, proc, stored, tasks, mongodb_database, db_users, db_batteries, api,
                   settings_ENVIRONMENT, users_unique>>

\* the store answers the find_one of a waiting create_user, which raises 400
\* or goes on to insert_one.  find_raises: the store does not answer.
register_user_found(slot, find_raises) ==
    LET r == registrations[slot] IN
    /\ r.pc = "find"
    /\ IF find_raises
       THEN /\ resp' = [RegisterResponse(r.username, r.email, 500, <<>>, {"store_read"})
                          EXCEPT !.raised = TRUE]
            /\ registrations' = [registrations EXCEPT ![slot] = FreeRegistration]
       ELSE IF users_find_one_or(db_users, r.username, r.email) # NoUser
       THEN /\ resp' = RegisterResponse(r.username, r.email, 400, <<>>, {"store_read"})
            /\ registrations' = [registrations EXCEPT ![slot] = FreeRegistration]
       ELSE /\ resp' = NoResponse
            /\ registrations' = [registrations EXCEPT ![slot].pc = "insert"]
    /\ UNCHANGED <<now, proc, stored, tasks, mongodb_database, db_users, db_batteries, api,
                   settings_ENVIRONMENT, users_unique>>

\* the store answers the insert_one of a waiting create_user.
\* insert_raises: the store does not answer and nothing is inserted.
register_user_inserted(slot, insert_raises) ==
    LET r == registrations[slot] IN
    /\ r.pc = "insert"
    /\ registrations' = [registrations EXCEPT ![slot] = FreeRegistration]
    /\ IF insert_raises \/ DuplicateKey(db_users, r.user_data, users_unique)
       THEN /\ resp' = [RegisterResponse(r.username, r.email, 500, <<>>,
                                         {"store_read", "store_write"})
                          EXCEPT !.raised = TRUE]
            /\ UNCHANGED db_users
       ELSE /\ db_users' = Append(db_users, r.user_data)
            /\ resp' = RegisterResponse(r.username, r.email, 200,
                          [user_id |-> r.user_data.id, username |-> r.username,
                           role |-> r.user_data.role],
                          {"store_read", "store_write"})
    /\ UNCHANGED <<now, proc, stored, tasks, mongodb_database, db_batteries, api,
                   settings_ENVIRONMENT, users_unique>>

\* what clients register with
RegisterNames == {"alice", "demo"}
RegisterEmails == {"alice@example.com", "demo@smartswapml.com"}
RegisterRoles == {"user"}

\* an administrator of the database deactivates an account
DeactivatedNames == {"operator"}

UserDeactivated(username) ==
    /\ users_find_one(db_users, username).is_active
    /\ db_users' = [n \in 1..Len(db_users) |->
                      IF db_users[n].username = username
                      THEN [db_users[n] EXCEPT !.is_active = FALSE] ELSE db_users[n]]
    /\ resp' = NoResponse
    /\ UNCHANGED <<now, proc, stored, tasks, mongodb_database, db_batteries, api, backend_cfg>>

\* the claims login puts into both tokens
TokenClaims(user) == [sub |-> user.username, user_id |-> user.id, role |-> user.role]

\* POST /api/auth/login.  update_raises: the server does not answer the
\* update of last_login.
backend_login(username, password, find_raises, update_raises) ==
    LET user == authenticate_user(username, password, find_raises)
        arg == <<username, password>>
    IN  /\ IF user = NoUser
           THEN /\ resp' = [BackendResponse("auth.login", arg, MissingCredentials,
                                            401, <<>>, {"store_read"})
                               EXCEPT !.raised = (mongodb_database = Null \/ find_raises)]
                /\ UNCHANGED db_users
           ELSE IF update_raises
           THEN /\ resp' = [BackendResponse("auth.login", arg, MissingCredentials,
                                            500, <<>>, {"store_read"})
                               EXCEPT !.raised = TRUE]
                /\ UNCHANGED db_users
           ELSE /\ db_users' =
                      [n \in 1..Len(db_users) |->
                         IF db_users[n].username = username
                            /\ \A k \in 1..(n - 1) : db_users[k].username # username
                         THEN [db_users[n] EXCEPT !.last_login = DateTime(now)]
                         ELSE db_users[n]]
                /\ resp' = BackendResponse("auth.login", arg, MissingCredentials, 200,
                              [access_token |-> backend_create_access_token(
                                                    TokenClaims(user),
                                                    settings_ACCESS_TOKEN_EXPIRE_MINUTES * 60,
                                                    now),
                               refresh_token |-> create_refresh_token(TokenClaims(user), now),
                               token_type |-> "bearer"],
                              {"store_read", "store_write"})
        /\ UNCHANGED <<now, proc, stored, tasks, mongodb_database, db_batteries, api, backend_cfg>>

\* who logs in, and with what
BackendLoginNames == {"demo", "operator", "ghost"}
BackendPasswords == {"demo123", "operator123", "wrong"}

\* an account that was removed from the users collection after a token was
\* issued for it
GhostUser == UserDoc("user_ghost", "ghost", "ghost123", "admin")

\* the access token login issued to a user at time t
BackendTokenFor(user, t) ==
    backend_create_access_token(TokenClaims(user),
                                settings_ACCESS_TOKEN_EXPIRE_MINUTES * 60, t)

\* the credentials a client of the backend may present at time t: none, a
\* string that is no JWT, a JWT signed with another key, an access token
\* that has expired, a refresh token, and the access tokens login issued
\* just now to the demo users and to the removed account
BackendCredentials(t) ==
    {MissingCredentials, MalformedCredentials,
     Jwt("another-key", "admin", "user_admin", "admin", t + 60, "access"),
     BackendTokenFor(demo_users[2], t - settings_ACCESS_TOKEN_EXPIRE_MINUTES * 60 - 1),
     create_refresh_token(TokenClaims(demo_users[2]), t),
     BackendTokenFor(GhostUser, t)}
        \cup {BackendTokenFor(demo_users[n], t) : n \in 1..Len(demo_users)}

\* the battery ids clients of the backend ask for, and the ones they create
BackendBatteryIds == {"BAT001", "BAT999"}
CreatedBatteryIds == {"BAT999"}

-----------------------------------------------------------------------------
(* Both applications and their clients: logins, and requests with every     *)
(* kind of credentials                                                      *)

InitAuth ==
    /\ now = 3600
    /\ redis_client = "client" /\ database = "db"
    /\ running = TRUE /\ restarts = 1
    /\ redis_data = [k \in CacheKeys |-> NoEntry]
    /\ mongo = SeedResult([batteries |-> <<>>, stations |-> <<>>], 4, 0)
    /\ seeded = TRUE
    /\ ext_writes = 0
    /\ queries = 0
    /\ tasks = AllFree
    /\ BackendIdle /\ ApiIdle
    /\ resp = NoResponse

\* the credentials verify_token of src/main.py refuses
RefusedMainCredentials(t) ==
    {c \in MainCredentials(t) : ~main_verify_token(c, t).ok}

NextAuth ==
    \/ connect_to_mongo({"username", "email"})
    \/ create_demo_users
    \/ \E u \in DeactivatedNames : UserDeactivated(u)
    \/ \E u \in BackendLoginNames, pw \in BackendPasswords, f \in BOOLEAN, r \in BOOLEAN :
          backend_login(u, pw, f, r)
    \/ \E ep \in RouterEndpoints, c \in BackendCredentials(now) :
          backend_endpoint(ep, c, FALSE)
    \/ \E c \in BackendCredentials(now) : backend_get_batteries(c, FALSE)
    \/ \E b \in BackendBatteryIds, c \in BackendCredentials(now) :
          backend_get_battery(b, c, FALSE)
    \/ \E b \in CreatedBatteryIds, c \in BackendCredentials(now), f \in BOOLEAN, r \in BOOLEAN :
          backend_create_battery(b, c, f, r)
    \/ \E b \in BackendBatteryIds, c \in BackendCredentials(now), f \in BOOLEAN, r \in BOOLEAN :
          backend_update_battery(b, 2, c, f, r)
    \/ \E u \in LoginNames, pw \in LoginPasswords : main_login(u, pw)
    \/ \E ep \in MainPlainEndpoints, c \in MainCredentials(now) : main_plain_endpoint(ep, c)
    \/ \E c \in RefusedMainCredentials(now) : main_get_batteries(c, 1, FALSE)
    \/ \E b \in RequestedIds, c \in RefusedMainCredentials(now) : main_get_battery(b, c, 1, FALSE)
    \/ \E c \in RefusedMainCredentials(now) : main_get_stations(c, 1, FALSE)

SpecAuth == InitAuth /\ [][NextAuth]_vars

-----------------------------------------------------------------------------
(* The user store of the backend: registration and the demo users *)

InitReg ==
    /\ now = 0
    /\ redis_client = Null /\ database = Null
    /\ running = FALSE /\ restarts = 0
    /\ redis_data = [k \in CacheKeys |-> NoEntry]
    /\ mongo = [batteries |-> <<>>, stations |-> <<>>]
    /\ seeded = FALSE
    /\ ext_writes = 0
    /\ queries = 0
    /\ tasks = AllFree
    /\ mongodb_database = Null
    /\ db_users = <<>> /\ db_batteries = <<>>
    /\ settings_ENVIRONMENT \in {"development", "production"}
    /\ users_unique = {}
    /\ registrations = NoRegistrations
    /\ ApiIdle
    /\ resp = NoResponse

NextReg ==
    \/ \E created \in IndexOutcomes : connect_to_mongo(created)
    \/ create_demo_users
    \/ \E slot \in 1..MaxRegistrations, username \in RegisterNames, email \in RegisterEmails,
          role \in RegisterRoles :
          register_user(slot, username, email, "secret", role)
    \/ \E slot \in 1..MaxRegistrations, find_raises \in BOOLEAN :
          register_user_found(slot, find_raises)
    \/ \E slot \in 1..MaxRegistrations, insert_raises \in BOOLEAN :
          register_user_inserted(slot, insert_raises)

SpecReg == InitReg /\ [][NextReg]_vars

-----------------------------------------------------------------------------
(* The tokens of the backend over their lifetime *)

\* the moments at which clients log in, and the moments the clock shows:
\* around the expiry of an access token and of a refresh token
IssueTimes == {0}
AccessLifetime == settings_ACCESS_TOKEN_EXPIRE_MINUTES * 60
RefreshLifetime == REFRESH_TOKEN_EXPIRE_DAYS * 24 * 3600
TimePoints ==
    {0, AccessLifetime - 1, AccessLifetime, AccessLifetime + 1,
     RefreshLifetime - 1, RefreshLifetime, RefreshLifetime + 1}

\* the endpoints of the auth router behind get_current_user
AuthUserEndpoints == {"auth.get_current_user_info", "auth.refresh_token", "auth.logout"}

\* GET /api/auth/me and POST /api/auth/logout
auth_endpoint(ep, cred, find_raises) ==
    /\ ep \in AuthUserEndpoints \ {"auth.refresh_token"}
    /\ \E d \in Depends("get_current_user", cred, find_raises) :
          resp' = IF ~d.ok THEN BackendRefused(ep, Null, cred, d.status, find_raises)
                  ELSE BackendResponse(ep, Null, cred, 200, <<>>, {})
    /\ UNCHANGED <<now, proc, stored, tasks, backend, api>>

\* POST /api/auth/refresh: new tokens for the user the dependency resolved
refresh_token(cred, find_raises) ==
    /\ \E d \in Depends("get_current_user", cred, find_raises) :
          resp' = IF ~d.ok
                  THEN BackendRefused("auth.refresh_token", Null, cred, d.status, find_raises)
                  ELSE BackendResponse("auth.refresh_token", Null, cred, 200,
                          [access_token |-> backend_create_access_token(
                                                TokenClaims(d.user), AccessLifetime, now),
                           refresh_token |-> create_refresh_token(TokenClaims(d.user), now),
                           token_type |-> "bearer"],
                          {})
    /\ UNCHANGED <<now, proc, stored, tasks, backend, api>>

\* the tokens login and refresh handed to demo at the issue times so far,
\* and what else a client may send as a bearer token: a string that is no
\* JWT, and JWTs signed with another key, without sub, and without type
TokenCredentials(t) ==
    {MalformedCredentials,
     Jwt("another-key", "demo", "user_demo", "user", t + 60, "access"),
     Jwt(settings_SECRET_KEY, Null, "user_demo", "user", t + 60, "access"),
     Jwt(settings_SECRET_KEY, "demo", Null, "user", t + 60, Null)}
        \cup {BackendTokenFor(demo_users[1], t0) : t0 \in {i \in IssueTimes : i <= t}}
        \cup {create_refresh_token(TokenClaims(demo_users[1]), t0) :
                 t0 \in {i \in IssueTimes : i <= t}}

\* the clock moves on to the next moment
TokenTick ==
    /\ \E t \in TimePoints :
          /\ t > now /\ \A u \in TimePoints : u > now => t <= u
          /\ now' = t
    /\ resp' = NoResponse
    /\ UNCHANGED <<proc, stored, tasks, backend, api>>

\* the backend after connect_to_mongo and create_demo_users
InitToken ==
    /\ now = 0
    /\ redis_client = Null /\ database = Null
    /\ running = FALSE /\ restarts = 0
    /\ redis_data = [k \in CacheKeys |-> NoEntry]
    /\ mongo = [batteries |-> <<>>, stations |-> <<>>]
    /\ seeded = FALSE
    /\ ext_writes = 0
    /\ queries = 0
    /\ tasks = AllFree
    /\ mongodb_database = "db"
    /\ db_users = demo_users /\ db_batteries = <<>>
    /\ settings_ENVIRONMENT = "development"
    /\ users_unique = {"username", "email"}
    /\ registrations = <<>>
    /\ ApiIdle
    /\ resp = NoResponse

TokenEndpoints ==
    {"batteries.predict_battery_health", "stations.get_stations",
     "routes.analyze_range", "analytics.get_dashboard_analytics",
     "stations.create_station", "analytics.get_system_status"}

NextToken ==
    \/ \E pw \in {"demo123", "wrong"} : backend_login("demo", pw, FALSE, FALSE)
    \/ \E c \in TokenCredentials(now), f \in BOOLEAN : refresh_token(c, f)
    \/ \E ep \in AuthUserEndpoints \ {"auth.refresh_token"}, c \in TokenCredentials(now) :
          auth_endpoint(ep, c, FALSE)
    \/ \E ep \in TokenEndpoints, c \in TokenCredentials(now) : backend_endpoint(ep, c, FALSE)
    \/ TokenTick

SpecToken == InitToken /\ [][NextToken]_vars

-----------------------------------------------------------------------------
(* src/backend/services/api_clients.py: the clients of the weather, maps    *)
(* and elevation providers.  A call is modelled by what it was given, what  *)
(* the provider did, and what the method handed back to its caller.         *)
(* Coordinates are in 1/10000 degree, elevations in 1/10 m, distance_km in  *)
(* 1/10 km and duration_minutes in 1/10 min.                                *)

\* the longest coordinate list a caller passes
MaxPoints == 2

Points == {<<190760, 728777>>, <<185204, 738567>>}
PointLists == UNION {[1..n -> Points] : n \in 0..MaxPoints}
Addresses == {"Mumbai", "Pune"}

\* settings.OPENWEATHER_API_KEY and settings.GOOGLE_MAPS_API_KEY: unset they
\* are "", and Optional[str] admits None
ApiKeys == {Null, "", "key"}
Configured(api_key) == api_key \notin {Null, ""}

\* what a method does in the end: it returns a value of a Python type, or an
\* exception leaves it.  caught: an except branch produced the value.
Return(type, value) == [raised |-> FALSE, caught |-> FALSE, type |-> type, value |-> value]
Raise(exception) == [raised |-> TRUE, caught |-> FALSE, type |-> exception, value |-> <<>>]

\* a try block without its except branch
ExceptPropagates(outcome, handler) == outcome

\* try: outcome / except Exception: return handler
Except(outcome, handler) ==
    IF outcome.raised THEN [handler EXCEPT !.caught = TRUE] ELSE outcome

\* what the provider does with a request: the request fails in httpx
\* (time-out, no connection), or a response arrives whose body may not be JSON
NoCall == [kind |-> "no_call"]
TransportError == [kind |-> "raises"]
HttpResponse(status_code, json) ==
    [kind |-> "response", status_code |-> status_code, is_json |-> TRUE, json |-> json]
NotJson(status_code) ==
    [kind |-> "response", status_code |-> status_code, is_json |-> FALSE, json |-> <<>>]

\* str.lower() on the conditions the weather provider names and on the
\* names of cities
lower(s) ==
    CASE s = "Rain" -> "rain"
      [] s = "Clear" -> "clear"
      [] s \in {"Mumbai", "MUMBAI"} -> "mumbai"
      [] s \in {"Pune", "PUNE"} -> "pune"
      [] s = "Lonavala" -> "lonavala"
      [] s = "Delhi" -> "delhi"
      [] OTHER -> s

\* f"{lat},{lon}"
FormatLocation(lat, lon) == <<lat, ",", lon>>

\* WeatherAPIClient._get_mock_weather
get_mock_weather(lat, lon, t) ==
    [location |-> FormatLocation(lat, lon), temperature |-> 250, humidity |-> 60,
     wind_speed |-> 100, wind_direction |-> 180, condition |-> "clear",
     description |-> "clear sky", pressure |-> 1013, visibility |-> 10000,
     timestamp |-> DateTime(t), mock_data |-> TRUE]

\* every subscript get_weather applies to the response finds its key
WeatherComplete(data) ==
    /\ {"main", "wind", "weather"} \subseteq DOMAIN data
    /\ {"temp", "humidity", "pressure"} \subseteq DOMAIN data.main
    /\ "speed" \in DOMAIN data.wind
    /\ Len(data.weather) > 0
    /\ {"main", "description"} \subseteq DOMAIN data.weather[1]

\* the try block of get_weather
get_weather_try(lat, lon, reply, t) ==
    IF reply.kind = "raises" THEN Raise("httpx.HTTPError")
    ELSE IF reply.status_code = 200
    THEN IF ~reply.is_json THEN Raise("JSONDecodeError")
         ELSE IF ~WeatherComplete(reply.json) THEN Raise("KeyError")
         ELSE LET data == reply.json IN
              Return("dict",
                [location |-> FormatLocation(lat, lon),
                 temperature |-> data.main.temp,
                 humidity |-> data.main.humidity,
                 wind_speed |-> data.wind.speed,
                 wind_direction |-> IF "deg" \in DOMAIN data.wind THEN data.wind.deg ELSE 0,
                 condition |-> lower(data.weather[1].main),
                 description |-> data.weather[1].description,
                 pressure |-> data.main.pressure,
                 visibility |-> IF "visibility" \in DOMAIN data THEN data.visibility ELSE 10000,
                 timestamp |-> DateTime(t)])
    ELSE Return("dict", get_mock_weather(lat, lon, t))

\* WeatherAPIClient.get_weather
get_weather(api_key, lat, lon, reply, t) ==
    IF ~Configured(api_key) THEN Return("dict", get_mock_weather(lat, lon, t))
    ELSE Except(get_weather_try(lat, lon, reply, t),
                Return("dict", get_mock_weather(lat, lon, t)))

\* GoogleMapsAPIClient._get_mock_directions
get_mock_directions(origin, destination, t) ==
    [distance_km |-> 1485, distance_text |-> "149 km", duration_minutes |-> 1800,
     duration_text |-> "3 hours", start_address |-> origin, end_address |-> destination,
     polyline |-> "mock_polyline_encoded_string",
     bounds |-> [northeast |-> [lat |-> 190760, lng |-> 738567],
                 southwest |-> [lat |-> 185204, lng |-> 728777]],
     steps |-> 25, warnings |-> <<>>, timestamp |-> DateTime(t), mock_data |-> TRUE]

\* every subscript get_directions applies to the first route finds its key
RouteComplete(route) ==
    /\ {"legs", "overview_polyline", "bounds"} \subseteq DOMAIN route
    /\ Len(route.legs) > 0
    /\ {"distance", "duration", "start_address", "end_address", "steps"}
          \subseteq DOMAIN route.legs[1]
    /\ {"value", "text"} \subseteq DOMAIN route.legs[1].distance
    /\ {"value", "text"} \subseteq DOMAIN route.legs[1].duration
    /\ "points" \in DOMAIN route.overview_polyline

\* the try block of get_directions
get_directions_try(origin, destination, reply, t) ==
    IF reply.kind = "raises" THEN Raise("httpx.HTTPError")
    ELSE IF reply.status_code = 200
    THEN IF ~reply.is_json THEN Raise("JSONDecodeError")
         ELSE LET data == reply.json IN
              IF "status" \notin DOMAIN data THEN Raise("KeyError")
              ELSE IF data.status # "OK"
              THEN Return("dict", get_mock_directions(origin, destination, t))
              ELSE IF "routes" \notin DOMAIN data THEN Raise("KeyError")
              ELSE IF Len(data.routes) = 0
              THEN Return("dict", get_mock_directions(origin, destination, t))
              ELSE IF ~RouteComplete(data.routes[1]) THEN Raise("KeyError")
              ELSE LET route == data.routes[1]
                       leg == route.legs[1]
                   IN Return("dict",
                        [distance_km |-> leg.distance.value \div 100,
                         distance_text |-> leg.distance.text,
                         duration_minutes |-> leg.duration.value \div 6,
                         duration_text |-> leg.duration.text,
                         start_address |-> leg.start_address,
                         end_address |-> leg.end_address,
                         polyline |-> route.overview_polyline.points,
                         bounds |-> route.bounds,
                         steps |-> Len(leg.steps),
                         warnings |-> IF "warnings" \in DOMAIN route
                                      THEN route.warnings ELSE <<>>,
                         timestamp |-> DateTime(t)])
    ELSE Return("dict", get_mock_directions(origin, destination, t))

\* GoogleMapsAPIClient.get_directions
get_directions(api_key, origin, destination, reply, t) ==
    IF ~Configured(api_key) THEN Return("dict", get_mock_directions(origin, destination, t))
    ELSE Except(get_directions_try(origin, destination, reply, t),
                Return("dict", get_mock_directions(origin, destination, t)))

\* GoogleMapsAPIClient._get_mock_elevation; enumerate counts from 0
GoogleMaps_get_mock_elevation(path_points) ==
    [n \in 1..Len(path_points) |->
        LET i == n - 1 IN
        [lat |-> path_points[n][1], lon |-> path_points[n][2],
         elevation |-> 5000 + (i * 100) - (i * i * 5),
         resolution |-> 10, distance_from_start |-> i * 1000, mock_data |-> TRUE]]

\* every subscript get_elevation_profile applies to the results finds its key
ProfileComplete(results) ==
    \A n \in 1..Len(results) :
        /\ {"location", "elevation"} \subseteq DOMAIN results[n]
        /\ {"lat", "lng"} \subseteq DOMAIN results[n].location

\* the try block of get_elevation_profile
get_elevation_profile_try(path_points, reply) ==
    IF reply.kind = "raises" THEN Raise("httpx.HTTPError")
    ELSE IF reply.status_code = 200
    THEN IF ~reply.is_json THEN Raise("JSONDecodeError")
         ELSE LET data == reply.json IN
              IF "status" \notin DOMAIN data THEN Raise("KeyError")
              ELSE IF data.status # "OK"
              THEN Return("list", GoogleMaps_get_mock_elevation(path_points))
              ELSE IF "results" \notin DOMAIN data \/ ~ProfileComplete(data.results)
              THEN Raise("KeyError")
              ELSE Return("list",
                     [n \in 1..Len(data.results) |->
                        LET result == data.results[n] IN
                        [lat |-> result.location.lat,
                         lon |-> result.location.lng,
                         elevation |-> result.elevation,
                         resolution |-> IF "resolution" \in DOMAIN result
                                        THEN result.resolution ELSE 10,
                         distance_from_start |->
                            ((n - 1) * 1000) \div Len(data.results)]])
    ELSE Return("list", GoogleMaps_get_mock_elevation(path_points))

\* GoogleMapsAPIClient.get_elevation_profile
get_elevation_profile(api_key, path_points, reply) ==
    IF ~Configured(api_key) THEN Return("list", GoogleMaps_get_mock_elevation(path_points))
    ELSE Except(get_elevation_profile_try(path_points, reply),
                Return("list", GoogleMaps_get_mock_elevation(path_points)))

\* GoogleMapsAPIClient._get_mock_geocode; f"Mock location for {address}"
get_mock_geocode(address) ==
    [address |-> "Mock location for " \o address, lat |-> 190760, lon |-> 728777,
     place_id |-> "mock_place_id", types |-> <<"locality", "political">>,
     mock_data |-> TRUE]

\* every subscript geocode applies to the first result finds its key
GeocodeComplete(result) ==
    /\ {"geometry", "formatted_address", "place_id", "types"} \subseteq DOMAIN result
    /\ "location" \in DOMAIN result.geometry
    /\ {"lat", "lng"} \subseteq DOMAIN result.geometry.location

\* the try block of geocode
geocode_try(address, reply) ==
    IF reply.kind = "raises" THEN Raise("httpx.HTTPError")
    ELSE IF reply.status_code = 200
    THEN IF ~reply.is_json THEN Raise("JSONDecodeError")
         ELSE LET data == reply.json IN
              IF "status" \notin DOMAIN data THEN Raise("KeyError")
              ELSE IF data.status # "OK" THEN Return("dict", get_mock_geocode(address))
              ELSE IF "results" \notin DOMAIN data THEN Raise("KeyError")
              ELSE IF Len(data.results) = 0 THEN Return("dict", get_mock_geocode(address))
              ELSE IF ~GeocodeComplete(data.results[1]) THEN Raise("KeyError")
              ELSE LET result == data.results[1]
                       location == result.geometry.location
                   IN Return("dict",
                        [address |-> result.formatted_address,
                         lat |-> location.lat, lon |-> location.lng,
                         place_id |-> result.place_id, types |-> result.types])
    ELSE Return("dict", get_mock_geocode(address))

\* GoogleMapsAPIClient.geocode
geocode(api_key, address, reply) ==
    IF ~Configured(api_key) THEN Return("dict", get_mock_geocode(address))
    ELSE Except(geocode_try(address, reply), Return("dict", get_mock_geocode(address)))

\* ElevationAPIClient._get_mock_elevation
Elevation_get_mock_elevation(coordinates) ==
    [n \in 1..Len(coordinates) |->
        LET i == n - 1 IN
        [lat |-> coordinates[n][1], lon |-> coordinates[n][2],
         elevation |-> 3000 + (i * 50), distance_from_start |-> i * 1000,
         source |-> "mock", mock_data |-> TRUE]]

\* every subscript get_elevation applies to the results finds its key
LookupComplete(results) ==
    \A n \in 1..Len(results) :
        {"latitude", "longitude", "elevation"} \subseteq DOMAIN results[n]

\* the try block of get_elevation
get_elevation_try(coordinates, reply) ==
    IF reply.kind = "raises" THEN Raise("httpx.HTTPError")
    ELSE IF reply.status_code = 200
    THEN IF ~reply.is_json THEN Raise("JSONDecodeError")
         ELSE LET data == reply.json IN
              IF "results" \notin DOMAIN data \/ ~LookupComplete(data.results)
              THEN Raise("KeyError")
              ELSE Return("list",
                     [n \in 1..Len(data.results) |->
                        LET result == data.results[n] IN
                        [lat |-> result.latitude, lon |-> result.longitude,
                         elevation |-> result.elevation,
                         distance_from_start |-> (n - 1) * 1000,
                         source |-> "open-elevation"]])
    ELSE Return("list", Elevation_get_mock_elevation(coordinates))

\* ElevationAPIClient.get_elevation: this client has no API key
get_elevation(coordinates, reply) ==
    Except(get_elevation_try(coordinates, reply),
           Return("list", Elevation_get_mock_elevation(coordinates)))

\* what the providers may answer
WeatherBodies ==
    { [main |-> [temp |-> 310, humidity |-> 70, pressure |-> 1008],
       wind |-> [speed |-> 40, deg |-> 220],
       weather |-> <<[main |-> "Rain", description |-> "light rain"]>>,
       visibility |-> 6000],
      [main |-> [temp |-> 310, humidity |-> 70, pressure |-> 1008],
       wind |-> [speed |-> 40],
       weather |-> <<[main |-> "Clear", description |-> "clear sky"]>>],
      [main |-> [temp |-> 310, humidity |-> 70, pressure |-> 1008],
       wind |-> [speed |-> 40, deg |-> 220],
       weather |-> <<>>],
      [cod |-> 401, message |-> "Invalid API key"] }

TheLeg ==
    [distance |-> [value |-> 148500, text |-> "149 km"],
     duration |-> [value |-> 10800, text |-> "3 hours"],
     start_address |-> "Mumbai, Maharashtra", end_address |-> "Pune, Maharashtra",
     steps |-> <<"turn left", "turn right">>]

TheBounds ==
    [northeast |-> [lat |-> 190760, lng |-> 738567],
     southwest |-> [lat |-> 185204, lng |-> 728777]]

DirectionsBodies ==
    { [status |-> "OK",
       routes |-> <<[legs |-> <<TheLeg>>, overview_polyline |-> [points |-> "a~l~F"],
                     bounds |-> TheBounds, warnings |-> <<"ferry">>]>>],
      [status |-> "OK",
       routes |-> <<[legs |-> <<TheLeg>>, overview_polyline |-> [points |-> "a~l~F"],
                     bounds |-> TheBounds]>>],
      [status |-> "OK", routes |-> <<[legs |-> <<>>, bounds |-> TheBounds]>>],
      [status |-> "OK", routes |-> <<>>],
      [status |-> "ZERO_RESULTS", routes |-> <<>>],
      [status |-> "REQUEST_DENIED", error_message |-> "The provided API key is invalid."],
      [error_message |-> "internal"] }

GeocodeBodies ==
    { [status |-> "OK",
       results |-> <<[formatted_address |-> "Mumbai, Maharashtra, India",
                      geometry |-> [location |-> [lat |-> 190760, lng |-> 728777]],
                      place_id |-> "ChIJwe1EZjDG5zsRaYxkjY_tpF0",
                      types |-> <<"locality", "political">>]>>],
      [status |-> "OK", results |-> <<[formatted_address |-> "Mumbai, Maharashtra, India"]>>],
      [status |-> "OK", results |-> <<>>],
      [status |-> "ZERO_RESULTS", results |-> <<>>],
      [status |-> "REQUEST_DENIED", error_message |-> "The provided API key is invalid."],
      [error_message |-> "internal"] }

ProfileBodies ==
    { [status |-> "OK",
       results |-> <<[location |-> [lat |-> 190760, lng |-> 728777],
                      elevation |-> 140, resolution |-> 95],
                     [location |-> [lat |-> 185204, lng |-> 738567],
                      elevation |-> 5600]>>],
      [status |-> "OK", results |-> <<[location |-> [lat |-> 190760, lng |-> 728777]]>>],
      [status |-> "OK", results |-> <<>>],
      [status |-> "INVALID_REQUEST", results |-> <<>>],
      [error_message |-> "internal"] }

LookupBodies ==
    { [results |-> <<[latitude |-> 190760, longitude |-> 728777, elevation |-> 140]>>],
      [results |-> <<[latitude |-> 190760, longitude |-> 728777]>>],
      [results |-> <<>>],
      [error |-> "Invalid JSON."] }

\* the replies to a request that was sent
Replies(bodies) ==
    {TransportError, NotJson(200), NotJson(502)}
        \cup {HttpResponse(200, b) : b \in bodies}
        \cup {HttpResponse(403, b) : b \in bodies}

\* without a key the client sends no request
RepliesFor(api_key, bodies) ==
    IF Configured(api_key) THEN Replies(bodies) ELSE {NoCall}

NoResult == Return("NoneType", <<>>)

Call(name, args, reply, result) ==
    /\ api' = [api EXCEPT !.call = name, !.args = args, !.reply = reply, !.result = result]
    /\ UNCHANGED <<now, proc, stored, tasks, backend, resp>>

api_get_weather ==
    \E p \in Points, reply \in RepliesFor(api.settings.OPENWEATHER_API_KEY, WeatherBodies) :
        Call("get_weather", <<p[1], p[2]>>, reply,
             get_weather(api.settings.OPENWEATHER_API_KEY, p[1], p[2], reply, now))

api_get_directions ==
    \E origin \in Addresses, destination \in Addresses,
       reply \in RepliesFor(api.settings.GOOGLE_MAPS_API_KEY, DirectionsBodies) :
        Call("get_directions", <<origin, destination>>, reply,
             get_directions(api.settings.GOOGLE_MAPS_API_KEY, origin, destination, reply, now))

api_geocode ==
    \E address \in Addresses,
       reply \in RepliesFor(api.settings.GOOGLE_MAPS_API_KEY, GeocodeBodies) :
        Call("geocode", <<address>>, reply,
             geocode(api.settings.GOOGLE_MAPS_API_KEY, address, reply))

api_get_elevation_profile ==
    \E path_points \in PointLists,
       reply \in RepliesFor(api.settings.GOOGLE_MAPS_API_KEY, ProfileBodies) :
        Call("get_elevation_profile", <<path_points>>, reply,
             get_elevation_profile(api.settings.GOOGLE_MAPS_API_KEY, path_points, reply))

api_get_elevation ==
    \E coordinates \in PointLists, reply \in Replies(LookupBodies) :
        Call("get_elevation", <<coordinates>>, reply, get_elevation(coordinates, reply))

\* the clients as the settings configure them, before any call
InitApi ==
    /\ now = 0
    /\ redis_client = Null /\ database = Null
    /\ running = FALSE /\ restarts = 0
    /\ redis_data = [k \in CacheKeys |-> NoEntry]
    /\ mongo = [batteries |-> <<>>, stations |-> <<>>]
    /\ seeded = FALSE
    /\ ext_writes = 0
    /\ queries = 0
    /\ tasks = AllFree
    /\ BackendIdle
    /\ \E weather_key \in ApiKeys, maps_key \in ApiKeys :
          api = [call |-> "none", args |-> <<>>, reply |-> NoCall, result |-> NoResult,
                 settings |-> [OPENWEATHER_API_KEY |-> weather_key,
                               GOOGLE_MAPS_API_KEY |-> maps_key]]
    /\ resp = NoResponse

NextApi ==
    \/ api_get_weather
    \/ api_get_directions
    \/ api_geocode
    \/ api_get_elevation_profile
    \/ api_get_elevation

SpecApi == InitApi /\ [][NextApi]_vars

-----------------------------------------------------------------------------
(* What the cache-backed handlers of src/main.py promise *)

CachedEndpoints == {"get_batteries", "get_battery", "get_stations"}
ListEndpoints == {"get_batteries", "get_stations"}

\* the cache key and the expiry the handlers are documented to use
KeyOf(ep, arg) ==
    IF ep = "get_batteries" THEN "batteries_cache"
    ELSE IF ep = "get_stations" THEN "stations_cache"
    ELSE "battery_" \o arg

TtlOf(key) == IF key = "stations_cache" THEN 60 ELSE 30

\* the last step sent the answer of a cache-backed handler
Answered(r) == r.app = "main" /\ r.ep \in CachedEndpoints /\ r.body_ran

\* ... and the handler reached its return statement
Returned(r) == Answered(r) /\ ~r.raised /\ r.status = 200

\* this step took the request of a client with a valid token up to its answer
\* or up to the query it sends to the store
Accepts ==
    /\ running /\ running'
    /\ \/ Answered(resp') /\ tasks' = tasks
       \/ \E i \in Slots : tasks[i].pc = "free" /\ tasks'[i].pc = "await"

\* this step resumes the handler suspended in slot i and sends its answer
Resumes(i) == running /\ running' /\ tasks[i].pc = "resume" /\ tasks'[i].pc = "free"

\* the models a handler builds for a cached string: the body it sends
Cached(ep, entry) == Body(ep, Loads(ep, entry.value))

\* C1, cache hit: a handler that finds an entry under its key (and whose
\* cache call does not raise) answers the cached value at once, reads no
\* store and leaves the cache as it is; it answers from the cache only then.
C1_Hit ==
    [][Accepts /\ resp' # NoResponse /\ ~resp'.raised =>
         LET entry == redis_get(redis_data, KeyOf(resp'.ep, resp'.arg), now)
         IN  /\ entry.present
             /\ resp'.hit /\ resp'.status = 200
             /\ resp'.body = Cached(resp'.ep, entry)
             /\ "store_read" \notin resp'.effects
             /\ UNCHANGED <<redis_data, tasks, mongo>>]_vars

\* C1, cache miss: a handler that finds no entry under its key queries the
\* store (it is suspended awaiting the answer, nothing is answered yet).
C1_MissFetches ==
    [][Accepts /\ resp' = NoResponse =>
         \E i \in Slots :
            /\ tasks[i].pc = "free" /\ tasks'[i].pc = "await"
            /\ ~redis_get(redis_data, KeyOf(tasks'[i].ep, tasks'[i].arg), now).present]_vars

\* C1, cache miss: the suspended handler receives what the store holds ...
C1_MissReadsStore ==
    [][\A i \in Slots :
         tasks[i].pc = "await" /\ tasks'[i].pc = "resume" /\ tasks'[i].found.ok =>
            tasks'[i].found.docs = Find(mongo, tasks[i].ep, tasks[i].arg)]_vars

\* ... and when it returns, it returns exactly the models of what it fetched
\* and the cache holds them under its key.
C1_MissPopulates ==
    [][\A i \in Slots :
         Resumes(i) /\ Returned(resp') =>
            LET ep == tasks[i].ep
                key == KeyOf(ep, tasks[i].arg)
            IN  /\ ~resp'.hit
                /\ "store_read" \in resp'.effects
                /\ resp'.body = Body(ep, Models(ep, tasks[i].found.docs).val)
                /\ redis_get(redis_data', key, now).present
                /\ Cached(ep, redis_data'[key]) = resp'.body
                /\ \A k \in CacheKeys \ {key} : redis_data'[k] = redis_data[k]]_vars

\* C1: the read-through cache of get_batteries, get_battery and get_stations
\* - on a miss the handler fetches from the store, writes the fetched result
\* under its key before returning and returns exactly what it fetched; on a
\* hit it returns the cached value and reads no store.
C1_ReadThrough == C1_Hit /\ C1_MissFetches /\ C1_MissReadsStore /\ C1_MissPopulates

\* a miss populated the cache and a later request was answered from it
C1_Witness ==
    /\ Returned(resp) /\ resp.hit /\ resp.ep = "get_batteries"
    /\ Len(resp.body) = 4 /\ resp.body[1]["id"] = "BAT001"

\* C2 as stated: every value these handlers return was the store's content
\* at some moment at most 30 s (batteries) or 60 s (stations) before the
\* response.
C2_StalenessWithinTtl ==
    Returned(resp) => resp.age <= TtlOf(KeyOf(resp.ep, resp.arg))

\* an entry that a step writes expires 30 s (60 s for stations) after the write
C2_StaticExpiry ==
    [][\A k \in CacheKeys :
         /\ redis_data'[k].present
         /\ \/ ~redis_data[k].present
            \/ redis_data'[k].value # redis_data[k].value
            \/ redis_data'[k].expire_at # redis_data[k].expire_at
         => redis_data'[k].expire_at = now + TtlOf(k)]_vars

\* only a handler that read the store writes an entry; a hit leaves the cache
\* and every expiry as they are
C2_HitNeverExtends ==
    [][/\ resp'.hit => UNCHANGED redis_data
       /\ \A k \in CacheKeys :
            redis_data'[k].present /\ redis_data'[k].expire_at # redis_data[k].expire_at
            => Returned(resp') /\ ~resp'.hit /\ KeyOf(resp'.ep, resp'.arg) = k]_vars

\* a value answered from the cache was written less than its expiry ago
C2_HitWithinTtl ==
    Returned(resp) /\ resp.hit =>
        LET k == KeyOf(resp.ep, resp.arg)
        IN  /\ redis_data[k].present
            /\ redis_data[k].expire_at - TtlOf(k) <= now
            /\ now < redis_data[k].expire_at

\* C2: the cache is time-boxed with a static expiry - an entry expires 30 s
\* (batteries_cache, battery_<id>) or 60 s (stations_cache) after it was
\* written, a hit neither rewrites nor extends it, and a value answered from
\* the cache was written less than that expiry before the response.
C2_TimeBoxed ==
    C2_StaticExpiry /\ C2_HitNeverExtends /\ []C2_HitWithinTtl

\* a hit 20 s after the write, and the store has changed since the value was read
C2_Witness ==
    /\ Returned(resp) /\ resp.hit /\ resp.ep = "get_batteries"
    /\ redis_data["batteries_cache"].expire_at - now = 10
    /\ resp.age > 0

\* C7: when a store or cache call of get_batteries or get_stations raises
\* (the cache client or the database never connected included), the handler
\* answers an empty list with status 200 and writes no cache entry.
C7_FailureAnswersEmpty ==
    /\ [](Answered(resp) /\ resp.ep \in ListEndpoints /\ resp.raised =>
             /\ resp.status = 200 /\ resp.body = <<>>
             /\ "cache_write" \notin resp.effects)
    /\ [][Answered(resp') /\ resp'.ep \in ListEndpoints /\ resp'.raised
             => UNCHANGED redis_data]_vars
       \* the cache client was never connected
    /\ [][Accepts /\ redis_client = Null =>
             /\ Answered(resp') /\ resp'.raised
             /\ resp'.ep \in ListEndpoints => resp'.status = 200 /\ resp'.body = <<>>]_vars
       \* the database was never connected, and nothing is cached
    /\ [][Accepts /\ redis_client # Null /\ database = Null /\ ~resp'.hit =>
             /\ Answered(resp') /\ resp'.raised
             /\ resp'.ep \in ListEndpoints => resp'.status = 200 /\ resp'.body = <<>>]_vars
       \* the store raised in the suspended handler
    /\ [][\A i \in Slots :
             Resumes(i) /\ ~tasks[i].found.ok /\ tasks[i].ep \in ListEndpoints =>
                /\ Answered(resp') /\ resp'.raised
                /\ resp'.status = 200 /\ resp'.body = <<>>
                /\ UNCHANGED redis_data]_vars

\* the database answered, then the cache raised on SETEX: an empty list
C7_Witness ==
    /\ Answered(resp) /\ resp.raised /\ resp.ep = "get_stations"
    /\ resp.status = 200 /\ resp.body = <<>>
    /\ "store_read" \in resp.effects
    /\ mongo.stations # <<>> /\ redis_client # Null

-----------------------------------------------------------------------------
(* What GET /api/batteries answers after startup *)

SeededIds == <<"BAT001", "BAT002", "BAT003", "BAT004">>

Ids(batteries) == [i \in 1..Len(batteries) |-> batteries[i]["id"]]

\* the last step answered an authenticated GET /api/batteries
BatteriesAnswered == Answered(resp) /\ resp.ep = "get_batteries"

\* C6 as stated: once initialize_sample_data has completed (and nobody else
\* has written since), every authenticated GET /api/batteries (none of whose
\* calls raises) returns exactly BAT001..BAT004.
C6_AlwaysSeededList ==
    seeded /\ BatteriesAnswered /\ ~resp.raised =>
        resp.status = 200 /\ Ids(resp.body) = SeededIds

\* C6: once initialize_sample_data has completed, whatever the collection
\* held before, an authenticated GET /api/batteries none of whose cache and
\* store calls raises returns exactly BAT001..BAT004 when it answers from
\* the store or from a cache entry written since that startup.
C6_SeededList ==
    /\ seeded /\ BatteriesAnswered /\ Returned(resp)
    /\ ~resp.hit \/ redis_data["batteries_cache"].run = restarts
    => Ids(resp.body) = SeededIds

\* the second start of the process found other documents and replaced them
C6_Witness ==
    /\ seeded /\ BatteriesAnswered /\ Returned(resp) /\ ~resp.hit
    /\ restarts = 2 /\ ext_writes = 1
    /\ Ids(resp.body) = SeededIds

-----------------------------------------------------------------------------
(* Login, bearer authentication and roles *)

\* this step answered a request to endpoint ep of app
Answers(app, ep) == resp' # NoResponse /\ resp'.app = app /\ resp'.ep = ep

\* moments at which a token issued now is presented before its expiry
TokenTimes(token) == {now, now + 1, token.exp - 1}

\* the user document the store holds for a username
Stored(username) == users_find_one(db_users, username)

\* the backend accepts the token whenever presented before its expiry and
\* decodes it to the user it was issued for
BackendTokenAccepted(token, user) ==
    \A t \in TokenTimes(token) :
        LET verified == backend_verify_token(token, t)
        IN  /\ verified.ok
            /\ verified.token_data.username = user.username
            /\ verified.token_data.user_id = user.id
            /\ verified.token_data.role = user.role

MainTokenAccepted(token, username) ==
    \A t \in TokenTimes(token) :
        LET verified == main_verify_token(token, t)
        IN  verified.ok /\ verified.payload.sub = username

\* C3, backend: the login of a user who is in the store, active, and gives
\* the matching password returns a bearer access token (when no store call
\* of the login raises), and verify_token accepts it before its expiry as
\* that user's, with the same user_id and role.
C3_BackendLogin ==
    [][Answers("backend", "auth.login") /\ mongodb_database # Null /\ ~resp'.raised
       /\ Stored(resp'.arg[1]) # NoUser /\ Stored(resp'.arg[1]).is_active
       /\ verify_password(resp'.arg[2], Stored(resp'.arg[1]).hashed_password)
       => /\ resp'.status = 200
          /\ resp'.body.token_type = "bearer"
          /\ BackendTokenAccepted(resp'.body.access_token, Stored(resp'.arg[1]))]_vars

\* C3, src/main.py: demo/demo123 is answered with a bearer access token that
\* verify_token accepts before its expiry as demo's.
C3_MainLogin ==
    [][Answers("main", "login") /\ resp'.arg = <<"demo", "demo123">>
       => /\ resp'.status = 200
          /\ resp'.body.token_type = "bearer"
          /\ MainTokenAccepted(resp'.body.access_token, "demo")]_vars

\* C3: login with valid credentials returns a token, and the token presented
\* before its expiry is accepted by verify_token and decodes to the user it
\* was issued for - in the backend and in src/main.py.
C3_LoginReturnsToken == C3_BackendLogin /\ C3_MainLogin

\* the operator logged in and holds a token with the role operator
C3_Witness ==
    /\ resp.app = "backend" /\ resp.ep = "auth.login" /\ resp.status = 200
    /\ resp.arg = <<"operator", "operator123">>
    /\ resp.body.access_token.role = "operator"
    /\ Stored("operator").last_login = DateTime(now)

\* C4: a login with an unknown username or a non-matching password is
\* answered 401 without any token and leaves the users collection as it
\* was; last_login changes only in a login answered 200, for its user.
C4_BadLoginRefused ==
    /\ [][Answers("backend", "auth.login")
          /\ \/ Stored(resp'.arg[1]) = NoUser
             \/ ~verify_password(resp'.arg[2], Stored(resp'.arg[1]).hashed_password)
          => resp'.status = 401 /\ resp'.body = <<>> /\ UNCHANGED db_users]_vars
    /\ [][Answers("main", "login") /\ resp'.arg # <<"demo", "demo123">>
          => resp'.status = 401 /\ resp'.body = <<>>]_vars
    /\ [][db_users' # db_users /\ Len(db_users') = Len(db_users)
          /\ (\E n \in 1..Len(db_users) : db_users'[n].last_login # db_users[n].last_login)
          => /\ Answers("backend", "auth.login") /\ resp'.status = 200
             /\ \A n \in 1..Len(db_users) :
                  db_users'[n].last_login # db_users[n].last_login
                  => db_users[n].username = resp'.arg[1]]_vars

\* demo exists and gave a wrong password
C4_Witness ==
    /\ resp.app = "backend" /\ resp.ep = "auth.login" /\ resp.status = 401
    /\ resp.arg = <<"demo", "wrong">>
    /\ Stored("demo") # NoUser /\ Stored("demo").last_login = Never
    /\ mongodb_database # Null

\* the /api endpoints of src/main.py
MainApiEndpoints == CachedEndpoints \cup MainPlainEndpoints

\* bearer credentials that are missing, malformed, wrongly signed or expired
BadCredentials(r) ==
    \/ r.cred.kind \in {"missing", "malformed"}
    \/ r.cred.kind = "jwt" /\ r.app = "backend"
          /\ (r.cred.key # settings_SECRET_KEY \/ r.cred.exp < now)
    \/ r.cred.kind = "jwt" /\ r.app = "main"
          /\ (r.cred.key # SECRET_KEY \/ r.cred.exp <= now)

\* C5 as stated: every endpoint of the batteries, stations, routes and
\* analytics routers and every /api endpoint of src/main.py answers a request
\* whose bearer token is missing, malformed, wrongly signed or expired with
\* 401, and its body does not run: no store, cache or external API is touched.
C5_EveryEndpointAuthenticated ==
    /\ \/ resp.app = "backend" /\ resp.ep \in RouterEndpoints
       \/ resp.app = "main" /\ resp.ep \in MainApiEndpoints
    /\ BadCredentials(resp)
    => resp.status = 401 /\ ~resp.body_ran /\ resp.effects = {}

\* C9 as stated: get_battery answers a battery exactly when the batteries
\* collection holds a document with that battery_id, and 404 otherwise.
C9_GetBatteryReadsStore ==
    resp.app = "backend" /\ resp.ep = "batteries.get_battery" /\ resp.body_ran =>
        IF batteries_find_one(db_batteries, resp.arg) # <<>>
        THEN resp.status = 200 /\ resp.body.battery_id = resp.arg
        ELSE resp.status = 404

\* the roles the endpoints are documented to admit
AllRoles == {"admin", "operator", "user"}

AllowedRoles(ep) ==
    IF ep \in {"batteries.create_battery", "batteries.update_battery",
               "stations.update_station", "analytics.get_system_status"}
    THEN {"admin", "operator"}
    ELSE IF ep \in {"stations.create_station", "stations.optimize_station_placement"}
    THEN {"admin"}
    ELSE AllRoles

\* r answers an authenticated user: a valid access token of an active user
\* of the store (whose lookup did not fail)
Authenticated(r) ==
    /\ r.app = "backend" /\ r.ep \in RouterEndpoints \ NoDependencyEndpoints
    /\ backend_verify_token(r.cred, now).ok
    /\ mongodb_database # Null /\ ~(r.raised /\ ~r.body_ran)
    /\ Stored(r.cred.sub) # NoUser /\ Stored(r.cred.sub).is_active

\* C10: an authenticated user whose role the endpoint does not admit is
\* answered 403 and the body does not run; users whose role it admits are
\* not answered 403; a step that answers 403 changes no collection, and the
\* batteries collection changes only in create_battery or update_battery
\* requested by an admin or operator.
C10_RoleBasedAccess ==
    /\ [](Authenticated(resp) =>
            IF Stored(resp.cred.sub).role \notin AllowedRoles(resp.ep)
            THEN resp.status = 403 /\ ~resp.body_ran /\ resp.effects = {}
            ELSE resp.status # 403 /\ resp.body_ran)
    /\ [][resp'.app = "backend" /\ resp'.status = 403
          => UNCHANGED <<db_users, db_batteries>>]_vars
    /\ [][db_batteries' # db_batteries =>
            /\ resp'.app = "backend"
            /\ resp'.ep \in {"batteries.create_battery", "batteries.update_battery"}
            /\ Stored(resp'.cred.sub).role \in {"admin", "operator"}]_vars

\* demo, whose role is user, asked to create a battery
C10_Witness ==
    /\ Authenticated(resp) /\ resp.ep = "batteries.create_battery"
    /\ resp.cred.sub = "demo" /\ Stored("demo").role = "user"
    /\ resp.status = 403

-----------------------------------------------------------------------------
(* What the external API clients hand back to their callers *)

ApiCalled == api.call # "none"
DictMethods == {"get_weather", "get_directions", "geocode"}
ListMethods == {"get_elevation_profile", "get_elevation"}
StatusMethods == {"get_directions", "geocode", "get_elevation_profile"}

\* the API key the called method looks at; get_elevation looks at none
KeyOfCall ==
    IF api.call = "get_weather" THEN api.settings.OPENWEATHER_API_KEY
    ELSE IF api.call = "get_elevation" THEN "not needed"
    ELSE api.settings.GOOGLE_MAPS_API_KEY

KeyNotConfigured == ~Configured(KeyOfCall)
StatusNot200 == api.reply.kind = "response" /\ api.reply.status_code # 200
ProviderNotOK ==
    /\ api.call \in StatusMethods
    /\ api.reply.kind = "response" /\ api.reply.status_code = 200 /\ api.reply.is_json
    /\ "status" \in DOMAIN api.reply.json
    /\ api.reply.json.status # "OK"
ExceptionOccurred == api.reply.kind = "raises" \/ api.result.caught

\* one of the conditions under which the methods fall back
FellBack == KeyNotConfigured \/ StatusNot200 \/ ProviderNotOK \/ ExceptionOccurred

\* the mock value of the called method for the arguments of the call
MockValue ==
    CASE api.call = "get_weather" -> get_mock_weather(api.args[1], api.args[2], now)
      [] api.call = "get_directions" -> get_mock_directions(api.args[1], api.args[2], now)
      [] api.call = "geocode" -> get_mock_geocode(api.args[1])
      [] api.call = "get_elevation_profile" -> GoogleMaps_get_mock_elevation(api.args[1])
      [] api.call = "get_elevation" -> Elevation_get_mock_elevation(api.args[1])

HasMark(d) == "mock_data" \in DOMAIN d /\ d["mock_data"] = TRUE

\* the returned value carries a mock_data mark: the dict itself, or an entry
\* of the list
CarriesMark ==
    IF api.call \in DictMethods THEN HasMark(api.result.value)
    ELSE \E n \in 1..Len(api.result.value) : HasMark(api.result.value[n])

\* nothing in the returned value is left unmarked: the dict itself is marked,
\* and so is every entry of the list
AllMarked ==
    IF api.call \in DictMethods THEN HasMark(api.result.value)
    ELSE \A n \in 1..Len(api.result.value) : HasMark(api.result.value[n])

NeverRaisesNorNone == ~api.result.raised /\ api.result.type # "NoneType"

\* C8 as stated: the methods never raise and never return None; whenever
\* the key is not configured, the HTTP status is not 200, the provider status
\* is not OK or an exception occurs, the returned value is the mock value and
\* carries mock_data = True; a value that carries no mock_data comes from a
\* successful provider response only.
C8_MockAlwaysMarked ==
    ApiCalled =>
        /\ NeverRaisesNorNone
        /\ FellBack => api.result.value = MockValue /\ CarriesMark
        /\ ~CarriesMark => ~FellBack

\* C8: the methods never raise and never return None; whenever the key is
\* not configured, the HTTP status is not 200, the provider status is not OK
\* or an exception occurs, the returned value is the mock value: a dict that
\* carries mock_data = True, or a list of one entry per coordinate given,
\* each of which carries mock_data = True (so no mark at all for an empty
\* coordinate list); a dict or a list entry without mock_data comes from a
\* successful provider response only.
C8_MockOrEmpty ==
    ApiCalled =>
        /\ NeverRaisesNorNone
        /\ FellBack =>
              /\ api.result.value = MockValue
              /\ AllMarked
              /\ api.call \in ListMethods => Len(api.result.value) = Len(api.args[1])
        /\ ~AllMarked => ~FellBack

\* the elevation provider could not be reached for two coordinates: both
\* entries returned are mock entries
C8_Witness ==
    /\ api.call = "get_elevation" /\ Len(api.args[1]) = 2
    /\ api.reply = TransportError
    /\ ~api.result.raised /\ api.result.caught
    /\ Len(api.result.value) = 2
    /\ \A n \in 1..2 : HasMark(api.result.value[n])

-----------------------------------------------------------------------------
(* What registration and the demo users promise about the user store *)

RegisterSlots == 1..MaxRegistrations
RegisterAnswered(r) == r.app = "backend" /\ r.ep = "auth.register_user"

\* the store answered the find_one of the coroutine in this step
FindAnswered(slot) ==
    /\ registrations[slot].pc = "find" /\ registrations'[slot].pc # "find"
    /\ ~resp'.raised

\* the store answered the insert_one of the coroutine in this step
InsertAnswered(slot) ==
    /\ registrations[slot].pc = "insert" /\ registrations'[slot].pc # "insert"
    /\ ~resp'.raised

Taken(username, email) ==
    \E n \in 1..Len(db_users) :
        db_users[n].username = username \/ db_users[n].email = email

\* a registration whose username or email the store holds is answered 400
\* and changes nothing
C11_TakenRefused ==
    [][\A slot \in RegisterSlots :
         FindAnswered(slot) /\ Taken(registrations[slot].username, registrations[slot].email)
         => /\ RegisterAnswered(resp') /\ resp'.status = 400
            /\ registrations'[slot].pc = "free"
            /\ db_users' = db_users]_vars

\* a registration whose username and email are free goes on to insert, and
\* the insert adds exactly one user: active, with the name and email asked
\* for and the hash of the password, and the request succeeds
C11_FreeInserted ==
    [][\A slot \in RegisterSlots :
         /\ FindAnswered(slot) /\ ~Taken(registrations[slot].username, registrations[slot].email)
            => registrations'[slot].pc = "insert" /\ db_users' = db_users
         /\ InsertAnswered(slot)
            => /\ RegisterAnswered(resp') /\ resp'.status = 200
               /\ Len(db_users') = Len(db_users) + 1
               /\ SubSeq(db_users', 1, Len(db_users)) = db_users
               /\ LET new == db_users'[Len(db_users')] IN
                    /\ new.username = registrations[slot].username
                    /\ new.email = registrations[slot].email
                    /\ new.is_active
                    /\ new.hashed_password = get_password_hash("secret")
                    /\ new.hashed_password # "secret"
                    /\ resp'.body.username = new.username]_vars

\* only a registration answered with success changes the store
C11_OnlySuccessInserts ==
    [][RegisterAnswered(resp') /\ resp'.status # 200 => db_users' = db_users]_vars

-----------------------------------------------------------------------------
(* What the backend promises about its tokens *)

\* the endpoints of the backend that resolve get_current_user
AuthenticatedEndpoints == AuthUserEndpoints \cup (RouterEndpoints \ NoDependencyEndpoints)

\* the last step answered a request to such an endpoint that carried a
\* bearer string
BearerAnswered(r) ==
    r.app = "backend" /\ r.ep \in AuthenticatedEndpoints /\ r.cred.kind # "missing"

\* the request got past verify_token: it was not refused with 401
PastVerifyToken(r) == BearerAnswered(r) /\ r.status # 401

\* C12: the backend verify_token accepts a token only if it is signed with
\* the backend's key, its exp is not in the past, it carries a sub and its
\* type is 'access'; a refresh token is answered 401 by every authenticated
\* endpoint without the body running, POST /api/auth/refresh included, so a
\* refresh that succeeds was called with a still valid access token.
C12_OnlyAccessTokens ==
    /\ PastVerifyToken(resp) =>
          /\ resp.cred.kind = "jwt" /\ resp.cred.key = settings_SECRET_KEY
          /\ now <= resp.cred.exp
          /\ resp.cred.sub # Null
          /\ resp.cred.type = "access"
    /\ BearerAnswered(resp) /\ resp.cred.type = "refresh" =>
          resp.status = 401 /\ ~resp.body_ran
    /\ resp.app = "backend" /\ resp.ep = "auth.refresh_token" /\ resp.status = 200 =>
          /\ resp.cred.type = "access" /\ now <= resp.cred.exp
          /\ resp.body.access_token.type = "access"
          /\ resp.body.refresh_token.type = "refresh"

\* the refresh token login issued to demo, presented to POST /api/auth/refresh
\* half an hour later, has been answered 401
C12_Witness ==
    /\ resp.app = "backend" /\ resp.ep = "auth.refresh_token"
    /\ resp.cred = create_refresh_token(TokenClaims(demo_users[1]), 0)
    /\ now = AccessLifetime
    /\ resp.status = 401 /\ ~resp.body_ran

\* the bearer string of the answered request is an access token login
\* issued to demo, and the user store answered the look-up of the user
IssuedAccessToken(r) ==
    /\ BearerAnswered(r) /\ ~r.raised
    /\ \E t0 \in IssueTimes : r.cred = BackendTokenFor(demo_users[1], t0)

\* the last step handed out tokens
TokensIssued(r) ==
    r.app = "backend" /\ r.ep \in {"auth.login", "auth.refresh_token"} /\ r.status = 200

\* C13: the access token login hands out expires ACCESS_TOKEN_EXPIRE_MINUTES
\* (30 minutes) after issue and the refresh token 7 days after issue; a
\* request bearing an issued access token is accepted before the expiry time
\* of the token and answered 401 from its expiry time on.
C13_ExpiryEnforced ==
    /\ TokensIssued(resp) =>
          /\ resp.body.access_token.exp = now + 30 * 60
          /\ resp.body.refresh_token.exp = now + 7 * 24 * 3600
    /\ IssuedAccessToken(resp) =>
          IF now < resp.cred.exp THEN resp.status # 401 ELSE resp.status = 401

\* ---------------------------------------------------------------------------
\* What create_demo_users promises
\* ---------------------------------------------------------------------------

DemoNames == {"demo", "admin", "operator"}

\* the number of users of the collection with that username
CountUsers(users, username) ==
    Cardinality({i \in DOMAIN users : users[i].username = username})

\* no username occurs twice in the collection
UsernamesDistinct(users) ==
    \A i, j \in DOMAIN users : users[i].username = users[j].username => i = j

\* the demo usernames the collection does not hold, in the order of the
\* demo_users list
AbsentDemoNames(users) ==
    LET absent == SelectSeq(demo_users, LAMBDA d : users_find_one(users, d.username) = NoUser)
    IN  [i \in DOMAIN absent |-> absent[i].username]

\* C14: create_demo_users answers 403 and leaves the store alone outside
\* development; in development, on a connected store in which no username
\* occurs twice, it leaves exactly one user for each of demo, admin and
\* operator, keeps every user that was there as it was, and reports the
\* usernames that were absent (none on a repeated call).
C14_DemoUsersIdempotent ==
    [][create_demo_users =>
          IF settings_ENVIRONMENT # "development"
          THEN resp'.status = 403 /\ db_users' = db_users
          ELSE mongodb_database # Null /\ UsernamesDistinct(db_users) =>
                  /\ \A name \in DemoNames : CountUsers(db_users', name) = 1
                  /\ SubSeq(db_users', 1, Len(db_users)) = db_users
                  /\ resp'.status = 200
                  /\ resp'.body = AbsentDemoNames(db_users)]_vars

-----------------------------------------------------------------------------
(* src/main.py: route optimization *)

\* random.randint(a, b): any integer of a..b; the two ends and the middle
\* stand for the range
randint(a, b) == {a, (a + b) \div 2, b}

Locations == {"Mumbai", "Pune"}
RouteBatteryIds == {Null, "BAT001"}

\* GET /api/route-optimization.  The five numbers are drawn afresh by each
\* request; predicted_range = distance * 0.95 + noise is kept in hundredths
\* of a kilometre.
get_route_optimization(from_loc, to_loc, battery_id, cred) ==
    LET verified == main_verify_token(cred, now)
        ep == "get_route_optimization"
        arg == <<from_loc, to_loc, battery_id>>
    IN  /\ running
        /\ IF cred.kind = "missing"
           THEN \E st \in HTTPBearerStatuses : resp' = Refused("main", ep, arg, cred, st)
           ELSE IF ~verified.ok
           THEN resp' = Refused("main", ep, arg, cred, verified.status)
           ELSE \E distance \in randint(50, 500), elevation_gain \in randint(100, 1000),
                   noise \in randint(-20, 10), confidence \in randint(85, 98),
                   weather_impact \in randint(-15, 5) :
                   resp' = Response("main", ep, arg, cred, 200,
                                    [id |-> <<"ROUTE", from_loc, to_loc>>,
                                     from_location |-> from_loc,
                                     to_location |-> to_loc,
                                     distance |-> distance,
                                     elevation_gain |-> elevation_gain,
                                     predicted_range |-> distance * 95 + noise * 100,
                                     confidence |-> confidence,
                                     weather_impact |-> weather_impact],
                                    TRUE, {}, FALSE, 0)
        /\ UNCHANGED <<backend, api, now, proc, stored, tasks>>

InitRoute == InitAuth

NextRoute ==
    \/ \E u \in LoginNames, pw \in LoginPasswords : main_login(u, pw)
    \/ \E from_loc \in Locations, to_loc \in Locations, battery_id \in RouteBatteryIds,
          c \in MainCredentials(now) :
          get_route_optimization(from_loc, to_loc, battery_id, c)

SpecRoute == InitRoute /\ [][NextRoute]_vars

\* the last step answered a route-optimization request with a route
RouteAnswered(r) ==
    r.app = "main" /\ r.ep = "get_route_optimization" /\ r.status = 200

\* C15: two route-optimization requests with the same origin, destination
\* and battery, answered one after the other, return the same distance,
\* elevation, predicted range, confidence and weather impact.
C15_RouteDeterministic ==
    [][RouteAnswered(resp) /\ RouteAnswered(resp') /\ resp'.arg = resp.arg =>
          /\ resp'.body.distance = resp.body.distance
          /\ resp'.body.elevation_gain = resp.body.elevation_gain
          /\ resp'.body.predicted_range = resp.body.predicted_range
          /\ resp'.body.confidence = resp.body.confidence
          /\ resp'.body.weather_impact = resp.body.weather_impact]_vars

\* ---------------------------------------------------------------------------
\* What concurrent registrations promise
\* ---------------------------------------------------------------------------

\* the users register_user inserted: those that are not demo users
RegisteredUsers ==
    SelectSeq(db_users, LAMBDA u : \A i \in DOMAIN demo_users : u.id # demo_users[i].id)

\* C16: whatever the interleaving of concurrent register_user requests, no
\* two registered users of the store share a username or an e-mail address,
\* so of several registrations of one username at most one has succeeded.
C16_NoDuplicateUsers ==
    \A i, j \in DOMAIN RegisteredUsers :
        (\/ RegisteredUsers[i].username = RegisteredUsers[j].username
         \/ RegisteredUsers[i].email = RegisteredUsers[j].email) => i = j

-----------------------------------------------------------------------------
(* src/backend/services/api_clients.py: the weather forecast *)

\* the most days a caller asks a forecast for
MaxDays == 2

\* the names the module api_clients.py binds at its top: its imports and
\* its logger
api_clients_globals ==
    {"logging", "httpx", "Optional", "Dict", "List", "Tuple", "json", "datetime",
     "settings", "logger"}

\* WeatherAPIClient._get_mock_forecast: the body of the loop evaluates
\* timedelta(days=i), and a name the module does not bind raises NameError.
\* Temperatures are in 1/10 degree, wind speeds in 1/10 m/s.
get_mock_forecast(lat, lon, days, t) ==
    IF days > 0 /\ "timedelta" \notin api_clients_globals THEN Raise("NameError")
    ELSE Return("list",
           [n \in 1..days |->
               LET i == n - 1 IN
               [date |-> [of |-> DateTime(t), hour |-> 12, plus_days |-> i],
                temperature |-> 250 + (i * 20),
                condition |-> IF i % 2 = 0 THEN "clear" ELSE "cloudy",
                wind_speed |-> 100,
                humidity |-> 60,
                mock_data |-> TRUE]])

\* every subscript get_weather_forecast applies to an item finds its key
ForecastItemComplete(item) ==
    /\ {"dt_txt", "main", "weather", "wind"} \subseteq DOMAIN item
    /\ {"temp", "humidity"} \subseteq DOMAIN item.main
    /\ Len(item.weather) > 0
    /\ "main" \in DOMAIN item.weather[1]
    /\ "speed" \in DOMAIN item.wind

\* data["list"][:days]
FirstItems(list, days) == SubSeq(list, 1, IF days < Len(list) THEN days ELSE Len(list))

\* the try block of get_weather_forecast
get_weather_forecast_try(lat, lon, days, reply, t) ==
    IF reply.kind = "raises" THEN Raise("httpx.HTTPError")
    ELSE IF reply.status_code = 200
    THEN IF ~reply.is_json THEN Raise("JSONDecodeError")
         ELSE IF "list" \notin DOMAIN reply.json THEN Raise("KeyError")
         ELSE LET items == FirstItems(reply.json.list, days) IN
              IF \E n \in DOMAIN items : ~ForecastItemComplete(items[n]) THEN Raise("KeyError")
              ELSE Return("list",
                     [n \in DOMAIN items |->
                         [date |-> items[n].dt_txt,
                          temperature |-> items[n].main.temp,
                          condition |-> lower(items[n].weather[1].main),
                          wind_speed |-> items[n].wind.speed,
                          humidity |-> items[n].main.humidity]])
    ELSE get_mock_forecast(lat, lon, days, t)

\* WeatherAPIClient.get_weather_forecast: an exception of the try block is
\* answered by the except branch, whose own exception leaves the method
get_weather_forecast(api_key, lat, lon, days, reply, t) ==
    IF ~Configured(api_key) THEN get_mock_forecast(lat, lon, days, t)
    ELSE Except(get_weather_forecast_try(lat, lon, days, reply, t),
                get_mock_forecast(lat, lon, days, t))

ForecastItem(dt_txt, condition) ==
    [dt_txt |-> dt_txt, main |-> [temp |-> 310, humidity |-> 70],
     weather |-> <<[main |-> condition]>>, wind |-> [speed |-> 40]]

ForecastBodies ==
    { [cod |-> 200, list |-> <<ForecastItem("d1 00:00", "Rain"), ForecastItem("d1 03:00", "Clear")>>],
      [cod |-> 200, list |-> <<ForecastItem("d1 00:00", "Rain")>>],
      [cod |-> 200, list |-> <<[dt_txt |-> "d1 00:00", main |-> [temp |-> 310]]>>],
      [cod |-> 401, message |-> "Invalid API key"] }

api_get_weather_forecast ==
    \E p \in Points, days \in 0..MaxDays,
       reply \in RepliesFor(api.settings.OPENWEATHER_API_KEY, ForecastBodies) :
        Call("get_weather_forecast", <<p[1], p[2], days>>, reply,
             get_weather_forecast(api.settings.OPENWEATHER_API_KEY, p[1], p[2], days,
                                  reply, now))

InitForecast == InitApi

NextForecast ==
    \/ api_get_weather_forecast
    \/ api_get_weather

SpecForecast == InitForecast /\ [][NextForecast]_vars

\* the last call was get_weather_forecast
ForecastCalled == api.call = "get_weather_forecast"

\* the call had to fall back: no key, no response, a status other than 200,
\* or a body that was not the forecast expected
ForecastFellBack ==
    \/ api.reply.kind # "response"
    \/ api.reply.status_code # 200
    \/ ~api.reply.is_json
    \/ "list" \notin DOMAIN api.reply.json
    \/ \E n \in DOMAIN FirstItems(api.reply.json.list, api.args[3]) :
          ~ForecastItemComplete(api.reply.json.list[n])

\* C17: get_weather_forecast(lat, lon, days) never raises; when it has to
\* fall back (no key, a status other than 200, an exception) it returns a
\* list of exactly `days` entries, entry i marked mock_data with temperature
\* 25.0 + 2 * i and condition clear for even i, cloudy for odd i.
C17_ForecastNeverRaises ==
    ForecastCalled =>
        /\ ~api.result.raised
        /\ ForecastFellBack =>
              /\ Len(api.result.value) = api.args[3]
              /\ \A n \in DOMAIN api.result.value :
                    /\ api.result.value[n].mock_data = TRUE
                    /\ api.result.value[n].temperature = 250 + 20 * (n - 1)
                    /\ api.result.value[n].condition
                          = (IF (n - 1) % 2 = 0 THEN "clear" ELSE "cloudy")

-----------------------------------------------------------------------------
(* src/main.py: GET /api/batteries/{battery_id} asked more than once *)

\* the number of queries get_battery sends to the store in one behaviour
MaxBatteryQueries == 2

main_get_battery_within(battery_id, cred, slot, get_raises) ==
    HandlerStartWithin("get_battery", battery_id, cred, slot, get_raises, MaxBatteryQueries)

\* the process is up with both clients; initialize_sample_data has seeded
\* the collections, or has raised before it inserted anything
InitBattery ==
    /\ now = 0
    /\ redis_client = "client" /\ database = "db"
    /\ running = TRUE /\ restarts = 1
    /\ redis_data = [k \in CacheKeys |-> NoEntry]
    /\ \E done \in {0, 4} :
          /\ mongo = SeedResult([batteries |-> <<>>, stations |-> <<>>], done, 0)
          /\ seeded = (done = 4)
    /\ ext_writes = 0
    /\ queries = 0
    /\ tasks = AllFree
    /\ BackendIdle /\ ApiIdle
    /\ resp = NoResponse

NextBattery ==
    \/ \E b \in RequestedIds, c \in MainCredentials(now), i \in Slots, r \in BOOLEAN :
          main_get_battery_within(b, c, i, r)
    \/ \E i \in Slots, r \in BOOLEAN : main_get_battery_resume(i, r)
    \/ \E i \in Slots, a \in BOOLEAN : MongoAnswers(i, a)
    \/ \E op \in ExternalWrites : ExternalWrite(op)
    \/ \E d \in Delays : Tick(d)

SpecBattery == InitBattery /\ [][NextBattery]_vars

\* this step is the second half of get_battery in that slot: the handler
\* resumes with the answer of the store and responds
BatteryResumed(slot) ==
    /\ tasks[slot].pc = "resume" /\ tasks[slot].ep = "get_battery"
    /\ tasks'[slot].pc = "free"
    /\ resp'.app = "main" /\ resp'.ep = "get_battery" /\ resp'.body_ran

\* the store answered the query of that slot with no document
NothingFound(slot) == tasks[slot].found.ok /\ tasks[slot].found.docs = <<>>

\* C18: when the store has no battery of the id asked for (and the cache had
\* none), get_battery answers 404, not 500, and writes nothing to the cache;
\* every exception other than that HTTPException is answered 500; a request
\* that finds no cache entry is answered from what the store holds, so that a
\* battery inserted after a 404 is returned by the next request.
C18_NotFoundNotCached ==
    [][/\ \A slot \in Slots : BatteryResumed(slot) =>
             /\ NothingFound(slot) =>
                   resp'.status = 404 /\ ~resp'.raised /\ redis_data' = redis_data
             /\ resp'.status = 404 => NothingFound(slot)
             /\ resp'.raised <=> resp'.status = 500
             /\ tasks[slot].found.ok /\ tasks[slot].found.docs # <<>> /\ ~resp'.raised =>
                   /\ resp'.status = 200
                   /\ resp'.body = Body("get_battery",
                                        Models("get_battery", tasks[slot].found.docs).val)
       /\ resp'.app = "main" /\ resp'.ep = "get_battery" /\ resp'.hit =>
             redis_data[battery_key(resp'.arg)].present]_vars

\* get_battery has answered 404 for BAT001 and the cache holds no entry for it
C18_Witness ==
    /\ resp.app = "main" /\ resp.ep = "get_battery" /\ resp.arg = "BAT001"
    /\ resp.status = 404 /\ ~resp.raised
    /\ ~redis_data[battery_key("BAT001")].present

-----------------------------------------------------------------------------
(* src/backend/routers: the battery and station lists with their filters *)

\* the largest skip and the largest limit below the default a client sends
MaxSkip == 3
MaxLimit == 2
DefaultLimit == 100

\* Optional[...] query parameters: <<>> is None, <<v>> the value v
None == <<>>
Some(values) == {<<v>> : v \in values}

\* `if parameter:` is false for None and for the empty string
Truthy(parameter) == parameter # None /\ parameter # <<"">>

\* list[skip:skip+limit]
Slice(list, skip, limit) ==
    SubSeq(list, skip + 1, IF skip + limit < Len(list) THEN skip + limit ELSE Len(list))

\* f"STN00{n}"
StationId(n) == "STN00" \o ToString(n)

\* get_batteries of routers/batteries.py builds query_filter from the
\* parameters given and hands it to get_mock_batteries
BatteriesQueryFilter(station_id, status) ==
    [station_id |-> IF Truthy(station_id) THEN station_id ELSE None,
     metrics_status |-> IF Truthy(status) THEN status ELSE None]

\* GET /api/batteries/ with its query parameters
backend_get_batteries_query(skip, limit, station_id, status, cred, find_raises) ==
    LET arg == [skip |-> skip, limit |-> limit, station_id |-> station_id, status |-> status]
    IN  /\ \E d \in Depends("get_current_user", cred, find_raises) :
              resp' = IF ~d.ok
                      THEN BackendRefused("batteries.get_batteries", arg, cred, d.status,
                                          find_raises)
                      ELSE BackendResponse("batteries.get_batteries", arg, cred, 200,
                                           get_mock_batteries(
                                               BatteriesQueryFilter(station_id, status),
                                               skip, limit), {})
        /\ UNCHANGED <<now, proc, stored, tasks, backend, api>>

\* get_mock_stations: utilisation and the other metrics follow from the
\* position in the full list; coordinates in 1/10000 degree
station_data == <<
    [station_id |-> "STN001", name |-> "Mumbai Central Swap Hub", city |-> "Mumbai",
     lat |-> 190760, lon |-> 728777,
     station_type |-> "urban", total |-> 20, available |-> 12],
    [station_id |-> "STN002", name |-> "Pune Tech Park Station", city |-> "Pune",
     lat |-> 185204, lon |-> 738567,
     station_type |-> "commercial", total |-> 15, available |-> 8],
    [station_id |-> "STN003", name |-> "Highway Express Charging", city |-> "Lonavala",
     lat |-> 188000, lon |-> 732000,
     station_type |-> "highway", total |-> 12, available |-> 9] >>

get_mock_stations ==
    [n \in 1..Len(station_data) |->
        LET i == n - 1
            data == station_data[n]
        IN  [station_id |-> data.station_id, name |-> data.name,
             location |-> [lat |-> data.lat, lon |-> data.lon, city |-> data.city],
             station_type |-> data.station_type,
             status |-> "active",
             total_slots |-> data.total,
             available_slots |-> data.available,
             daily_swaps |-> 150 + (i * 30),
             amenities |-> IF i = 0 THEN <<"WiFi", "Restroom", "Cafe">> ELSE <<"WiFi">>]]

\* the stations sliced first and filtered afterwards
get_stations_paginated_first(stations, skip, limit, station_type, status, city) ==
    LET paginated == Slice(stations, skip, limit)
        by_type == IF Truthy(station_type)
                   THEN SelectSeq(paginated, LAMBDA s : s.station_type = station_type[1])
                   ELSE paginated
        by_status == IF Truthy(status)
                     THEN SelectSeq(by_type, LAMBDA s : s.status = status[1])
                     ELSE by_type
    IN  IF Truthy(city)
        THEN SelectSeq(by_status, LAMBDA s : lower(s.location.city) = lower(city[1]))
        ELSE by_status

\* the try block of get_stations: the three filters, then the slice
get_stations_filtered(stations, skip, limit, station_type, status, city) ==
    LET by_type == IF Truthy(station_type)
                   THEN SelectSeq(stations, LAMBDA s : s.station_type = station_type[1])
                   ELSE stations
        by_status == IF Truthy(status)
                     THEN SelectSeq(by_type, LAMBDA s : s.status = status[1])
                     ELSE by_type
        by_city == IF Truthy(city)
                   THEN SelectSeq(by_status,
                                  LAMBDA s : lower(s.location.city) = lower(city[1]))
                   ELSE by_status
    IN  Slice(by_city, skip, limit)

\* GET /api/stations/ with its query parameters
backend_get_stations(skip, limit, station_type, status, city, cred, find_raises) ==
    LET arg == [skip |-> skip, limit |-> limit, station_type |-> station_type,
                status |-> status, city |-> city]
    IN  /\ \E d \in Depends("get_current_user", cred, find_raises) :
              resp' = IF ~d.ok
                      THEN BackendRefused("stations.get_stations", arg, cred, d.status,
                                          find_raises)
                      ELSE BackendResponse("stations.get_stations", arg, cred, 200,
                                           get_stations_filtered(get_mock_stations, skip, limit,
                                                                 station_type, status, city),
                                           {})
        /\ UNCHANGED <<now, proc, stored, tasks, backend, api>>

\* the query parameters FastAPI lets through (skip >= 0, 1 <= limit <= 1000,
\* the filters None or a member of their type)
Skips == 0..MaxSkip
Limits == (1..MaxLimit) \cup {DefaultLimit}
BatteryStationIds == {None} \cup Some({"STN002"})
BatteryStatuses == {None} \cup Some({"healthy", "retired"})
StationTypes == {None} \cup Some({"commercial", "rural"})
StationStatuses == {None} \cup Some({"active", "offline"})
Cities == {None} \cup Some({"PUNE", "Delhi", ""})
ListCredentials == {MissingCredentials, BackendTokenFor(demo_users[1], 0)}

InitList == InitToken

NextList ==
    \/ \E skip \in Skips, limit \in Limits, station_id \in BatteryStationIds,
          status \in BatteryStatuses, c \in ListCredentials :
          backend_get_batteries_query(skip, limit, station_id, status, c, FALSE)
    \/ \E skip \in Skips, limit \in Limits, station_type \in StationTypes,
          status \in StationStatuses, city \in Cities, c \in ListCredentials :
          backend_get_stations(skip, limit, station_type, status, city, c, FALSE)

SpecList == InitList /\ [][NextList]_vars

\* ---------------------------------------------------------------------------
\* What the battery and station lists promise
\* ---------------------------------------------------------------------------

\* the last step answered a list request of that endpoint with a list
ListAnswered(r, ep) == r.app = "backend" /\ r.ep = ep /\ r.status = 200

\* the battery passes the filters the request gave
BatteryMatches(battery, arg) ==
    /\ Truthy(arg.station_id) => StationId(battery.station_id) = arg.station_id[1]
    /\ Truthy(arg.status) => battery.status = arg.status[1]

\* C19: get_batteries returns a list in which every battery passes the
\* filters given (station_id, status), of at most `limit` batteries.
C19_BatteryFiltersApplied ==
    ListAnswered(resp, "batteries.get_batteries") =>
        /\ Len(resp.body) <= resp.arg.limit
        /\ \A n \in DOMAIN resp.body : BatteryMatches(resp.body[n], resp.arg)

\* the station passes every filter the request gave
StationMatches(station, arg) ==
    /\ Truthy(arg.station_type) => station.station_type = arg.station_type[1]
    /\ Truthy(arg.status) => station.status = arg.status[1]
    /\ Truthy(arg.city) => lower(station.location.city) = lower(arg.city[1])

\* the stations that pass every filter, in the order of get_mock_stations
MatchingStations(arg) == SelectSeq(get_mock_stations, LAMBDA s : StationMatches(s, arg))

\* C20: get_stations filters before it paginates: the answer is exactly the
\* slice [skip, skip + limit) of the stations matching every filter given
\* (station_type, status, city without regard to case), in their original
\* order; a filter nothing matches or a skip beyond the matches gives the
\* empty list with status 200.
C20_StationsFilteredThenSliced ==
    /\ ListAnswered(resp, "stations.get_stations") =>
          resp.body = Slice(MatchingStations(resp.arg), resp.arg.skip, resp.arg.limit)
    /\ resp.app = "backend" /\ resp.ep = "stations.get_stations" /\ resp.body_ran =>
          resp.status = 200 /\ ~resp.raised

\* the request for the stations of PUNE with limit 1 was answered with the
\* second station of the list alone
C20_Witness ==
    /\ ListAnswered(resp, "stations.get_stations")
    /\ resp.arg.city = <<"PUNE">> /\ resp.arg.skip = 0 /\ resp.arg.limit = 1
    /\ Len(resp.body) = 1 /\ resp.body[1].station_id = "STN002"

-----------------------------------------------------------------------------
(* src/backend/routers/stations.py: the search for nearby stations *)

\* the largest s between lo and hi with s * s <= n
RECURSIVE isqrt_between(_, _, _)
isqrt_between(n, lo, hi) ==
    IF lo >= hi THEN lo
    ELSE LET mid == (lo + hi + 1) \div 2
         IN  IF mid * mid <= n THEN isqrt_between(n, mid, hi)
             ELSE isqrt_between(n, lo, mid - 1)

abs(x) == IF x < 0 THEN -x ELSE x

\* ((lat_diff ** 2 + lon_diff ** 2) ** 0.5) * 111 for coordinates in 1/10000
\* degree, in 1/10000 km: whole is the integer part and exact tells that
\* nothing follows it.  With s the integer root of the sum of squares and r
\* what is left of it, 111 * sqrt(s * s + r) >= 111 * s + j exactly when
\* 222 * s * j + j * j <= 12321 * r.
Distance(lat1, lon1, lat2, lon2) ==
    LET lat_diff == abs(lat1 - lat2)
        lon_diff == abs(lon1 - lon2)
        squares == lat_diff * lat_diff + lon_diff * lon_diff
        s == isqrt_between(squares, 0, 40000)
        r == squares - s * s
        j == CHOOSE j \in 0..110 :
                /\ 222 * s * j + j * j <= 12321 * r
                /\ 222 * s * (j + 1) + (j + 1) * (j + 1) > 12321 * r
    IN  [whole |-> 111 * s + j, exact |-> (222 * s * j + j * j = 12321 * r)]

\* distance > radius_km, radius_km in whole kilometres
FartherThan(distance, radius_km) ==
    \/ distance.whole > radius_km * 10000
    \/ distance.whole = radius_km * 10000 /\ ~distance.exact

\* round(distance, 2), in 1/100 km
RoundedKm(distance) == (distance.whole + 50) \div 100

RECURSIVE sort_by_distance(_)

\* the results in the order the loop appended them
unsorted(results) == results

\* results.sort(key=lambda x: x.distance_km): stable, ascending
sort_by_distance(results) ==
    IF results = <<>> THEN <<>>
    ELSE LET sorted == sort_by_distance(SubSeq(results, 1, Len(results) - 1))
             last == results[Len(results)]
             before == SelectSeq(sorted, LAMBDA x : x.distance_km <= last.distance_km)
             after == SelectSeq(sorted, LAMBDA x : x.distance_km > last.distance_km)
         IN  before \o <<last>> \o after

\* the loop of search_nearby_stations: a station passing the three filters
\* becomes a result.  availability_score < 0.3 is compared on the slots;
\* current_wait_time_minutes is in 1/10 minute.
search_results(stations, search) ==
    LET passes(station) ==
            LET distance == Distance(station.location.lat, station.location.lon,
                                     search.lat, search.lon)
            IN  /\ ~FartherThan(distance, search.radius_km)
                /\ ~(Truthy(search.station_type)
                       /\ station.station_type # search.station_type[1])
                /\ ~(station.available_slots < search.min_available_slots)
        kept == SelectSeq(stations, passes)
    IN  [n \in 1..Len(kept) |->
            [station |-> kept[n],
             distance_km |-> RoundedKm(Distance(kept[n].location.lat, kept[n].location.lon,
                                                search.lat, search.lon)),
             current_wait_time_minutes |->
                 IF 10 * kept[n].available_slots < 3 * kept[n].total_slots THEN 50 ELSE 0]]

\* POST /api/stations/search
search_nearby_stations(search, cred, find_raises) ==
    /\ \E d \in Depends("get_current_user", cred, find_raises) :
          resp' = IF ~d.ok
                  THEN BackendRefused("stations.search_nearby_stations", search, cred,
                                      d.status, find_raises)
                  ELSE BackendResponse("stations.search_nearby_stations", search, cred, 200,
                                       sort_by_distance(
                                           search_results(get_mock_stations, search)), {})
    /\ UNCHANGED <<now, proc, stored, tasks, backend, api>>

\* the searches clients send: from the Mumbai station, from the Pune station
\* and from a point 5.55 km from the Lonavala station
SearchPoints == {<<190760, 728777>>, <<185204, 738567>>, <<188300, 732400>>}
SearchRadii == {10, 50, 100}
SearchTypes == {None} \cup Some({"highway", "rural"})
SearchMinSlots == {1, 9, 13}
Searches ==
    {[lat |-> p[1], lon |-> p[2], radius_km |-> radius, station_type |-> type,
      min_available_slots |-> slots] :
        p \in SearchPoints, radius \in SearchRadii, type \in SearchTypes,
        slots \in SearchMinSlots}

InitSearch == InitToken

NextSearch ==
    \E search \in Searches, c \in ListCredentials : search_nearby_stations(search, c, FALSE)

SpecSearch == InitSearch /\ [][NextSearch]_vars

\* ---------------------------------------------------------------------------
\* What the search for nearby stations promises
\* ---------------------------------------------------------------------------

SearchAnswered(r) ==
    r.app = "backend" /\ r.ep = "stations.search_nearby_stations" /\ r.status = 200

\* the station is within the radius, has the slots and is of the type asked
\* for
Nearby(station, search) ==
    /\ ~FartherThan(Distance(station.location.lat, station.location.lon,
                             search.lat, search.lon), search.radius_km)
    /\ station.available_slots >= search.min_available_slots
    /\ search.station_type # None => station.station_type = search.station_type[1]

\* C21: search_nearby_stations returns exactly the stations within
\* radius_km of the search point that have at least min_available_slots
\* available slots and are of station_type when one is given, each once, in
\* the order of non-decreasing distance_km, with current_wait_time_minutes
\* 5.0 exactly when available_slots / total_slots is below 0.3 and 0.0
\* otherwise.
C21_NearbySortedByDistance ==
    SearchAnswered(resp) =>
        /\ {resp.body[n].station : n \in DOMAIN resp.body}
              = {get_mock_stations[i] : i \in {i \in DOMAIN get_mock_stations :
                                                 Nearby(get_mock_stations[i], resp.arg)}}
        /\ \A m, n \in DOMAIN resp.body :
              /\ resp.body[m].station = resp.body[n].station => m = n
              /\ m <= n => resp.body[m].distance_km <= resp.body[n].distance_km
        /\ \A n \in DOMAIN resp.body :
              resp.body[n].current_wait_time_minutes
                 = (IF 10 * resp.body[n].station.available_slots
                          < 3 * resp.body[n].station.total_slots THEN 50 ELSE 0)

\* a search from the Pune station within 100 km was answered with the Pune
\* station first and the Lonavala station, 79.23 km away, second
C21_Witness ==
    /\ SearchAnswered(resp)
    /\ resp.arg.lat = 185204 /\ resp.arg.radius_km = 100
    /\ Len(resp.body) = 2
    /\ resp.body[1].station.station_id = "STN002" /\ resp.body[1].distance_km = 0
    /\ resp.body[2].station.station_id = "STN003" /\ resp.body[2].distance_km = 7923

-----------------------------------------------------------------------------
(* src/backend/routers/batteries.py: the analysis of a swap request *)

\* the decision taken on the size of the difference, whatever its sign
swap_decision_absolute(old_health, new_health) ==
    LET health_improvement == abs(new_health - old_health)
    IN  IF health_improvement >= 20
        THEN [recommendation |-> "recommended", confidence |-> 95, warnings |-> <<>>]
        ELSE IF health_improvement >= 10
        THEN [recommendation |-> "caution", confidence |-> 75,
              warnings |-> <<"Moderate improvement expected">>]
        ELSE [recommendation |-> "not_recommended", confidence |-> 60,
              warnings |-> <<"Minimal improvement expected",
                             "Consider keeping current battery">>]

\* the if / elif / else of analyze_swap_request
swap_decision(old_health, new_health) ==
    LET health_improvement == new_health - old_health
    IN  IF health_improvement >= 20
        THEN [recommendation |-> "recommended", confidence |-> 95, warnings |-> <<>>]
        ELSE IF health_improvement >= 10
        THEN [recommendation |-> "caution", confidence |-> 75,
              warnings |-> <<"Moderate improvement expected">>]
        ELSE [recommendation |-> "not_recommended", confidence |-> 60,
              warnings |-> <<"Minimal improvement expected",
                             "Consider keeping current battery">>]

\* POST /api/batteries/swap/analyze
analyze_swap_request(old_battery_id, new_battery_id, cred, find_raises) ==
    LET arg == <<old_battery_id, new_battery_id>>
        old_battery == get_mock_battery(old_battery_id)
        new_battery == get_mock_battery(new_battery_id)
    IN  /\ \E d \in Depends("get_current_user", cred, find_raises) :
              resp' = IF ~d.ok
                      THEN BackendRefused("batteries.analyze_swap_request", arg, cred,
                                          d.status, find_raises)
                      ELSE IF old_battery = <<>> \/ new_battery = <<>>
                      THEN BackendResponse("batteries.analyze_swap_request", arg, cred,
                                           404, <<>>, {})
                      ELSE LET old_health == old_battery[1].soh
                               new_health == new_battery[1].soh
                               decision == swap_decision(old_health, new_health)
                           IN  BackendResponse("batteries.analyze_swap_request", arg, cred, 200,
                                 [swap_id |-> <<"swap", now>>,
                                  recommendation |-> decision.recommendation,
                                  old_battery_health |-> old_health,
                                  new_battery_health |-> new_health,
                                  estimated_range_improvement |-> (new_health - old_health) * 2,
                                  confidence_score |-> decision.confidence,
                                  warnings |-> decision.warnings], {})
        /\ UNCHANGED <<now, proc, stored, tasks, backend, api>>

\* the battery ids of swap requests: the five mock batteries and an unknown one
SwapBatteryIds == {"BAT001", "BAT002", "BAT003", "BAT004", "BAT005", "BAT009"}

InitSwap == InitToken

NextSwap ==
    \E old_id \in SwapBatteryIds, new_id \in SwapBatteryIds, c \in ListCredentials :
        analyze_swap_request(old_id, new_id, c, FALSE)

SpecSwap == InitSwap /\ [][NextSwap]_vars

\* ---------------------------------------------------------------------------
\* What the analysis of a swap request promises
\* ---------------------------------------------------------------------------

\* the last step ran the body of analyze_swap_request
SwapAnalyzed(r) ==
    r.app = "backend" /\ r.ep = "batteries.analyze_swap_request" /\ r.body_ran

\* the battery ids get_mock_battery knows
KnownBatteryIds == {mock_battery_ids[n] : n \in DOMAIN mock_battery_ids}

\* C22: analyze_swap_request answers 404 when either battery id is unknown;
\* otherwise the answer follows from new SOH minus old SOH alone: at least 20
\* gives recommended with confidence 95 and no warning, at least 10 and below
\* 20 caution with confidence 75 and one warning, below 10 (negative
\* included) not_recommended with confidence 60 and two warnings, and
\* estimated_range_improvement is twice the difference.
C22_SwapDecision ==
    SwapAnalyzed(resp) =>
        IF resp.arg[1] \notin KnownBatteryIds \/ resp.arg[2] \notin KnownBatteryIds
        THEN resp.status = 404
        ELSE LET difference == resp.body.new_battery_health - resp.body.old_battery_health IN
             /\ resp.status = 200
             /\ resp.body.estimated_range_improvement = 2 * difference
             /\ difference >= 20 =>
                   /\ resp.body.recommendation = "recommended"
                   /\ resp.body.confidence_score = 95 /\ Len(resp.body.warnings) = 0
             /\ difference >= 10 /\ difference < 20 =>
                   /\ resp.body.recommendation = "caution"
                   /\ resp.body.confidence_score = 75 /\ Len(resp.body.warnings) = 1
             /\ difference < 10 =>
                   /\ resp.body.recommendation = "not_recommended"
                   /\ resp.body.confidence_score = 60 /\ Len(resp.body.warnings) = 2

\* the swap of BAT005 (SOH 78) for BAT001 (SOH 90) was answered with caution
C22_Witness ==
    /\ SwapAnalyzed(resp) /\ resp.status = 200
    /\ resp.arg = <<"BAT005", "BAT001">>
    /\ resp.body.new_battery_health - resp.body.old_battery_health = 12
    /\ resp.body.recommendation = "caution"

-----------------------------------------------------------------------------
(* src/backend/services/ml_service.py: the battery health prediction.      *)
(* What the trained forest predicts is not computed here: each call of     *)
(* predict hands back a state of health between 20 and 100, the range of   *)
(* its training targets.  States of health are in 1/1000 percent where the *)
(* forest returns them and in 1/100 percent once rounded; confidences are  *)
(* in 1/100.                                                               *)

\* the days of the degradation forecast
FORECAST_DAYS == 7

\* round(x, 2) of a value in thousandths, in hundredths
Round2(thousandths) == (thousandths + 5) \div 10

\* dict.get(key, default) on a dict whose key may be missing
GetOr(field, default) == IF field = None THEN default ELSE field[1]

Min(a, b) == IF a < b THEN a ELSE b
Max(a, b) == IF a > b THEN a ELSE b

\* an entry that keeps the overall confidence
forecast_entry_flat(i, future_soh, overall) ==
    [confidence |-> overall,
     day |-> i + 1,
     predicted_soh |-> Round2(Max(future_soh, 20000))]

\* the entry the loop appends for day i + 1
forecast_entry(i, future_soh, overall) ==
    [confidence |-> overall - i * 100,
     day |-> i + 1,
     predicted_soh |-> Round2(Max(future_soh, 20000))]

\* the try block of predict_battery_health.  soh[1] is what predict returns
\* for the features, soh[i + 1] what it returns with the age raised by i
\* days; numeric: every feature is a number.
predict_battery_health_try(battery_data, soh, numeric) ==
    IF ~numeric THEN Raise("ValueError")
    ELSE LET cycle_count == GetOr(battery_data.cycle_count, 500)
             soh_now == soh[1]
             overall == Min(10000 - abs(cycle_count - 1000) * 2, 9500)
             forecast == [n \in 1..FORECAST_DAYS |->
                            forecast_entry(n - 1, soh[n], overall)]
         IN  Return("dict",
               [confidence |-> overall,
                current_soh |-> Round2(soh_now),
                swap_recommendation |-> IF soh_now >= 80000 THEN "recommended"
                                        ELSE IF soh_now >= 60000 THEN "caution"
                                        ELSE "not_recommended",
                degradation_forecast |-> forecast])

\* what the except branch returns
HealthFallback ==
    [current_soh |-> 8500, confidence |-> 7500, swap_recommendation |-> "recommended",
     error |-> "str(e)"]

\* MLService.predict_battery_health
predict_battery_health(battery_data, soh, numeric) ==
    Except(predict_battery_health_try(battery_data, soh, numeric),
           Return("dict", HealthFallback))

\* what the forest may predict over the seven days
Predictions ==
    { [n \in 1..FORECAST_DAYS |-> 85500 - 100 * n],
      [n \in 1..FORECAST_DAYS |-> 80003 - n],
      [n \in 1..FORECAST_DAYS |-> 79997],
      [n \in 1..FORECAST_DAYS |-> 60000],
      [n \in 1..FORECAST_DAYS |-> 59994],
      [n \in 1..FORECAST_DAYS |-> 20000] }

CycleCounts == {None} \cup Some({0, 750, 1000, 3000})
BatteryData == {[cycle_count |-> c] : c \in CycleCounts}

\* a caller asks the service for a prediction
ml_predict_battery_health ==
    \E battery_data \in BatteryData, soh \in Predictions, numeric \in BOOLEAN :
        Call("predict_battery_health", <<battery_data>>,
             [kind |-> "predict", soh |-> soh, numeric |-> numeric],
             predict_battery_health(battery_data, soh, numeric))

\* POST /api/batteries/{battery_id}/health-prediction
backend_predict_battery_health(battery_id, prediction_days, cred, find_raises, soh) ==
    LET arg == <<battery_id, prediction_days>>
        ep == "batteries.predict_battery_health"
        battery == get_mock_battery(battery_id)
    IN  /\ \E d \in Depends("get_current_user", cred, find_raises) :
              IF ~d.ok
              THEN /\ resp' = BackendRefused(ep, arg, cred, d.status, find_raises)
                   /\ UNCHANGED api
              ELSE IF battery = <<>>
              THEN /\ resp' = BackendResponse(ep, arg, cred, 404, <<>>, {})
                   /\ UNCHANGED api
              ELSE LET battery_data == [cycle_count |-> <<battery[1].cycle_count>>]
                       outcome == predict_battery_health(battery_data, soh, TRUE)
                       prediction == outcome.value
                   IN  /\ api' = [api EXCEPT !.call = "predict_battery_health",
                                             !.args = <<battery_data>>,
                                             !.reply = [kind |-> "predict", soh |-> soh,
                                                        numeric |-> TRUE],
                                             !.result = outcome]
                       /\ resp' = BackendResponse(ep, arg, cred, 200,
                                    [battery_id |-> battery_id,
                                     predictions |->
                                        IF "degradation_forecast" \in DOMAIN prediction
                                        THEN prediction.degradation_forecast ELSE <<>>,
                                     confidence |-> prediction.confidence,
                                     current_soh |-> prediction.current_soh,
                                     swap_recommendation |-> prediction.swap_recommendation],
                                    {})
        /\ UNCHANGED <<now, proc, stored, tasks, backend>>

PredictionDays == {1, 7, 30}

\* the backend with its user store connected and the service constructed,
\* before any call
InitHealth ==
    /\ now = 0
    /\ redis_client = Null /\ database = Null
    /\ running = FALSE /\ restarts = 0
    /\ redis_data = [k \in CacheKeys |-> NoEntry]
    /\ mongo = [batteries |-> <<>>, stations |-> <<>>]
    /\ seeded = FALSE
    /\ ext_writes = 0
    /\ queries = 0
    /\ tasks = AllFree
    /\ mongodb_database = "db"
    /\ db_users = demo_users /\ db_batteries = <<>>
    /\ settings_ENVIRONMENT = "development"
    /\ users_unique = {"username", "email"}
    /\ registrations = <<>>
    /\ api = [call |-> "none", args |-> <<>>, reply |-> NoCall, result |-> NoResult,
              settings |-> [OPENWEATHER_API_KEY |-> "", GOOGLE_MAPS_API_KEY |-> ""]]
    /\ resp = NoResponse

NextHealth ==
    \/ ml_predict_battery_health
    \/ \E b \in {"BAT001", "BAT005", "BAT009"}, days \in PredictionDays,
          c \in ListCredentials, soh \in Predictions :
          backend_predict_battery_health(b, days, c, FALSE, soh)

SpecHealth == InitHealth /\ [][NextHealth]_vars

\* ---------------------------------------------------------------------------
\* What the battery health prediction promises
\* ---------------------------------------------------------------------------

\* the last call of the service was predict_battery_health
HealthPredicted == api.call = "predict_battery_health"

\* the call raised nothing inside: every feature was a number
HealthComputed == HealthPredicted /\ api.reply.numeric

\* C23: predict_battery_health never raises.  When nothing fails inside, the
\* degradation forecast has exactly 7 entries with day 1..7 in order, each
\* predicted_soh at least 20 and each confidence the overall confidence minus
\* (day - 1); the overall confidence is at most 95; swap_recommendation is
\* recommended for a predicted state of health of at least 80, caution from
\* 60 up to 80, not_recommended below 60.  On an exception the result is the
\* fallback: current_soh 85.0, confidence 75.0, recommended.  The router
\* hands the 7 entries on whatever prediction_days the request names.
C23_SevenDayForecast ==
    /\ HealthPredicted => ~api.result.raised
    /\ HealthComputed =>
          LET result == api.result.value
              predicted == api.reply.soh[1]
          IN  /\ Len(result.degradation_forecast) = 7
              /\ \A n \in DOMAIN result.degradation_forecast :
                    /\ result.degradation_forecast[n].day = n
                    /\ result.degradation_forecast[n].predicted_soh >= 2000
                    /\ result.degradation_forecast[n].confidence
                          = result.confidence - 100 * (n - 1)
              /\ result.confidence <= 9500
              /\ result.swap_recommendation
                    = (IF predicted >= 80000 THEN "recommended"
                       ELSE IF predicted >= 60000 THEN "caution" ELSE "not_recommended")
    /\ HealthPredicted /\ ~api.reply.numeric =>
          /\ api.result.value.current_soh = 8500
          /\ api.result.value.confidence = 7500
          /\ api.result.value.swap_recommendation = "recommended"
    /\ resp.app = "backend" /\ resp.ep = "batteries.predict_battery_health"
          /\ resp.status = 200 =>
          /\ Len(resp.body.predictions) = 7
          /\ \A n \in DOMAIN resp.body.predictions : resp.body.predictions[n].day = n

\* the service was asked about a battery of 3000 cycles that the forest puts
\* just below 80: confidence 60, caution, and a forecast of seven days
C23_Witness ==
    /\ HealthComputed
    /\ api.args[1].cycle_count = <<3000>>
    /\ api.reply.soh[1] = 79997
    /\ api.result.value.confidence = 6000
    /\ api.result.value.swap_recommendation = "caution"
    /\ Len(api.result.value.degradation_forecast) = 7
    /\ api.result.value.degradation_forecast[7].confidence = 5400

-----------------------------------------------------------------------------
(* src/backend/routers/stations.py: POST /api/stations/placement/optimize.
   Coordinates of region_bounds are in tenths of a degree, the coordinates of
   a recommended location in hundredths, demand predictions and years in
   tenths. *)

\* list[:n] of Python: a negative n counts from the end
SliceTo(list, n) ==
    SubSeq(list, 1, IF n >= 0 THEN Min(n, Len(list)) ELSE Max(Len(list) + n, 0))

\* [x] * n of Python: empty when n is not positive
Repeat(x, n) == [i \in 1..Max(n, 0) |-> x]

\* the greatest and the least of a non-empty set of numbers
MaxOf(S) == CHOOSE x \in S : \A y \in S : y <= x
MinOf(S) == CHOOSE x \in S : \A y \in S : x <= y

\* calculate_polygon_area, in hundredths of a degree squared; the caller
\* multiplies by 111 * 111 / 100 to get km2.  None: the default of 100 km2.
calculate_polygon_area(bounds) ==
    IF Len(bounds) < 3 THEN None
    ELSE LET lats == {bounds[n][1] : n \in DOMAIN bounds}
             lons == {bounds[n][2] : n \in DOMAIN bounds}
             lat_range == MaxOf(lats) - MinOf(lats)
             lon_range == MaxOf(lons) - MinOf(lons)
         IN  <<lat_range * lon_range>>

\* MLService.optimize_station_placement; region_data.demand is base_demand in
\* hundredths (population_density + traffic_volume / 100)
ml_optimize_station_placement(region_data) ==
    LET base_demand == region_data.population_density + region_data.traffic_volume \div 100
        optimal_stations ==
            Max(1, IF region_data.area = None THEN (100 * base_demand) \div 100000
                   ELSE (region_data.area[1] * 12321 * base_demand) \div 10000000)
        recommended_new_stations == Max(0, optimal_stations - region_data.existing_stations)
        coverage_improvement == Min(1000, recommended_new_stations * 150)
        daily_swaps_per_station == Min(500, base_demand)
        annual_revenue_per_station == daily_swaps_per_station * 1825
        roi_years == IF annual_revenue_per_station > 0
                     THEN (2 * 25000000 + annual_revenue_per_station)
                              \div (2 * annual_revenue_per_station)
                     ELSE 100
    IN  [analysis |-> [current_stations |-> region_data.existing_stations,
                       optimal_stations |-> optimal_stations,
                       recommended_new |-> recommended_new_stations],
         projections |-> [coverage_improvement_percent |-> coverage_improvement,
                          roi_payback_years |-> roi_years]]

\* the five demand predictions of the handler
DemandPredictions == <<1505, 893, 2037, 1568, 1782>>

\* demand_predictions of the handler: the five predictions, sliced
demand_predictions(num_recommendations) ==
    SliceTo(DemandPredictions, num_recommendations)

\* the try block of optimize_station_placement
optimize_station_placement_try(request) ==
    LET region_data ==
            [area |-> calculate_polygon_area(request.region_bounds),
             population_density |-> IF request.population_data # None
                                    THEN GetOr(request.population_data[1].density, 100)
                                    ELSE 100,
             traffic_volume |-> IF request.traffic_data # None
                                THEN GetOr(request.traffic_data[1].daily_volume, 5000)
                                ELSE 5000,
             existing_stations |-> 0]
        optimization == ml_optimize_station_placement(region_data)
        num_recommendations ==
            Min(request.max_stations, optimization.analysis.recommended_new)
    IN  IF num_recommendations > 0 /\ Len(request.region_bounds) = 0
        THEN Raise("IndexError")
        ELSE Return("StationPlacementResponse",
               [recommended_locations |->
                    [n \in 1..Max(num_recommendations, 0) |->
                        [lat |-> request.region_bounds[1][1] * 10 + (n - 1),
                         lon |-> request.region_bounds[1][2] * 10 + (n - 1),
                         address |-> <<"Optimal Location", n>>,
                         city |-> "Region City"]],
                coverage_analysis |->
                    [current_coverage_percent |-> 452,
                     projected_coverage_percent |->
                         optimization.projections.coverage_improvement_percent,
                     population_served |-> 125000,
                     underserved_areas |-> 3],
                demand_predictions |-> demand_predictions(num_recommendations),
                investment_requirements |-> Repeat(250000, num_recommendations),
                roi_projections |->
                    Repeat(optimization.projections.roi_payback_years, num_recommendations),
                optimization_score |-> 857,
                analysis |-> optimization.analysis])

\* POST /api/stations/placement/optimize
optimize_station_placement(request, cred, find_raises) ==
    LET ep == "stations.optimize_station_placement"
        outcome == optimize_station_placement_try(request)
    IN  /\ \E d \in Depends("require_admin", cred, find_raises) :
              resp' = IF ~d.ok THEN BackendRefused(ep, request, cred, d.status, find_raises)
                      ELSE IF outcome.raised
                      THEN BackendResponse(ep, request, cred, 500, <<>>, {})
                      ELSE BackendResponse(ep, request, cred, 200, outcome.value, {})
        /\ UNCHANGED <<now, proc, stored, tasks, backend, api>>

\* the regions asked about: none, two points, a line, squares of half a degree
\* and of one degree
RegionBounds ==
    { <<>>,
      <<<<180, 730>>, <<190, 740>>>>,
      <<<<180, 730>>, <<180, 735>>, <<180, 740>>>>,
      <<<<180, 730>>, <<180, 735>>, <<185, 735>>, <<185, 730>>>>,
      <<<<180, 730>>, <<180, 740>>, <<190, 740>>, <<190, 730>>>> }

MaxStations == {-1, 0, 1, 3, 5, 6, 10}
PopulationData == {None} \cup Some({[density |-> d] : d \in {None} \cup Some({400})})
TrafficData == {None} \cup Some({[daily_volume |-> v] : v \in Some({20000})})

StationPlacementRequests ==
    [region_bounds : RegionBounds, max_stations : MaxStations,
     population_data : PopulationData, traffic_data : TrafficData]

PlacementCredentials ==
    {BackendTokenFor(demo_users[1], 0), BackendTokenFor(demo_users[2], 0)}

InitPlacement == InitToken

NextPlacement ==
    \E request \in StationPlacementRequests, c \in PlacementCredentials :
        optimize_station_placement(request, c, FALSE)

SpecPlacement == InitPlacement /\ [][NextPlacement]_vars

\* ---------------------------------------------------------------------------
\* What a station placement response promises
\* ---------------------------------------------------------------------------

\* the last step returned a StationPlacementResponse
PlacementAnswered(r) ==
    r.app = "backend" /\ r.ep = "stations.optimize_station_placement"
        /\ r.body_ran /\ r.status = 200

\* C24: in every StationPlacementResponse the four lists
\* recommended_locations, demand_predictions, investment_requirements and
\* roi_projections have the same length, min(max_stations, recommended_new)
\* with recommended_new = max(0, optimal_stations - existing_stations) and
\* optimal_stations >= 1, for every max_stations and every region size.
C24_PlacementListsSameLength ==
    PlacementAnswered(resp) =>
        LET analysis == resp.body.analysis
            length == Min(resp.arg.max_stations, analysis.recommended_new)
        IN  /\ analysis.optimal_stations >= 1
            /\ analysis.recommended_new
                  = Max(0, analysis.optimal_stations - analysis.current_stations)
            /\ Len(resp.body.recommended_locations) = length
            /\ Len(resp.body.demand_predictions) = length
            /\ Len(resp.body.investment_requirements) = length
            /\ Len(resp.body.roi_projections) = length

\* the lists agree whenever at most five and at least no stations are
\* recommended
C24_SameLengthUpToFive ==
    PlacementAnswered(resp) =>
        LET length == Min(resp.arg.max_stations, resp.body.analysis.recommended_new)
        IN  length >= 0 /\ length <= 5 =>
               /\ Len(resp.body.recommended_locations) = length
               /\ Len(resp.body.demand_predictions) = length
               /\ Len(resp.body.investment_requirements) = length
               /\ Len(resp.body.roi_projections) = length

\* a square degree with the default max_stations of ten: ten locations
C24_TenLocations ==
    /\ PlacementAnswered(resp)
    /\ resp.arg.max_stations = 10
    /\ Len(resp.body.recommended_locations) = 10

-----------------------------------------------------------------------------
(* One battery behind every id *)

\* the attributes of a battery that do not depend on the clock
BatteryAttributes(battery) ==
    [soh |-> battery.soh, soc |-> battery.soc, cycle_count |-> battery.cycle_count,
     station_id |-> battery.station_id, status |-> battery.status]

\* C25: a battery id denotes one battery with fixed attributes: for every
\* skip and limit, each battery returned by get_batteries of the backend has
\* the same state of health, state of charge, cycle count, station_id and
\* status as get_battery returns for the same battery id.
C25_ListAgreesWithGetBattery ==
    ListAnswered(resp, "batteries.get_batteries") =>
        \A n \in DOMAIN resp.body :
            LET battery == get_mock_battery(resp.body[n].battery_id)
            IN  /\ battery # <<>>
                /\ BatteryAttributes(resp.body[n]) = BatteryAttributes(battery[1])

\* without a skip the list and get_battery agree
C25_AgreeWithoutSkip ==
    ListAnswered(resp, "batteries.get_batteries") /\ resp.arg.skip = 0 =>
        \A n \in DOMAIN resp.body :
            LET battery == get_mock_battery(resp.body[n].battery_id)
            IN  /\ battery # <<>>
                /\ BatteryAttributes(resp.body[n]) = BatteryAttributes(battery[1])

-----------------------------------------------------------------------------
(* Logout *)

\* the last step answered POST /api/auth/logout with 200
LogoutSucceeded(r) == r.app = "backend" /\ r.ep = "auth.logout" /\ r.status = 200

\* the bearer string of the answered request is a refresh token login issued
\* to demo, and the user store answered the look-up of the user
IssuedRefreshToken(r) ==
    /\ BearerAnswered(r) /\ ~r.raised
    /\ \E t0 \in IssueTimes : r.cred = create_refresh_token(TokenClaims(demo_users[1]), t0)

\* a step that answers a logout leaves the clock, the stores, the tasks and
\* the users as they were
LogoutChangesNothing ==
    resp'.app = "backend" /\ resp'.ep = "auth.logout" =>
        UNCHANGED <<now, proc, stored, tasks, backend, api>>

\* the request that follows a successful logout with the same bearer string,
\* before the string's expiry time, is not answered 401
AcceptedAfterLogout ==
    /\ LogoutSucceeded(resp) /\ BearerAnswered(resp')
    /\ resp'.cred = resp.cred /\ ~resp'.raised /\ now' < resp.cred.exp
    => resp'.status # 401

\* logout changes no server state, requires a valid access token, and after
\* a successful logout the same access token and the refresh token issued
\* with it are still accepted by every authenticated endpoint until their
\* expiry times
C26_LogoutKeepsBothTokens ==
    (IssuedAccessToken(resp) \/ IssuedRefreshToken(resp)) /\ now < resp.cred.exp =>
        resp.status # 401

\* C26: logout changes no server state and requires a valid access token;
\* after a successful logout the same access token is still accepted by
\* every authenticated endpoint before its expiry time, and the refresh
\* token issued with it is refused with 401 by every authenticated endpoint,
\* as it was before the logout.
C26_LogoutKeepsAccessToken ==
    /\ [][LogoutChangesNothing]_vars
    /\ [](LogoutSucceeded(resp) =>
             /\ resp.cred.kind = "jwt" /\ resp.cred.key = settings_SECRET_KEY
             /\ resp.cred.type = "access" /\ resp.cred.sub # Null
             /\ now <= resp.cred.exp)
    /\ [][AcceptedAfterLogout]_vars
    /\ [](IssuedAccessToken(resp) /\ now < resp.cred.exp => resp.status # 401)
    /\ [](IssuedRefreshToken(resp) => resp.status = 401 /\ ~resp.body_ran)

\* demo has logged out with the access token of the login, one second before
\* the token expires
C26_Witness ==
    /\ LogoutSucceeded(resp)
    /\ resp.cred = BackendTokenFor(demo_users[1], 0)
    /\ now = AccessLifetime - 1

====
